---- MODULE Spec2Model ----
(***************************************************************************)
(* The FAISS vector store of agent_fin (FAISSVectorDB): the in-memory      *)
(* index with its parallel documents / metadata lists and the symbol       *)
(* index, the four persisted artifacts, and the asyncio tasks that work on *)
(* them (add_company_data, remove_company_data with its background         *)
(* _rebuild_index task, search).  Every await of the embedding provider is *)
(* a suspension point: a call is split into the step up to the await and   *)
(* the step from the provider's answer to the next await or the return.    *)
(*                                                                         *)
(* Around the store: the news deduplicator (_deduplicate_news), Data       *)
(* Fusion (StockDataProcessor.get_comprehensive_stock_data) and the        *)
(* context retriever (StockRAGRetriever.retrieve_context).  Each has its   *)
(* own variables and its own specification; a specification leaves the     *)
(* variables of the other components as they are.                          *)
(***************************************************************************)
EXTENDS Integers, Sequences, FiniteSets, TLC

(***************************************************************************)
(* Bounds of the model.                                                    *)
(***************************************************************************)
MaxDocs == 2        \* documents the store may hold
MaxVectors == 3     \* vectors the index may hold (a stale index is longer)
MaxNews == 1        \* news articles in one company_data record
MaxAdds == 1        \* add_company_data calls suspended at once
MaxRebuilds == 1    \* _rebuild_index tasks alive at once
MaxSearches == 1    \* search calls suspended at once
MaxK == 2           \* largest k passed to search

NewsLimit == 10     \* company_data["news"][:10]
Artifacts == 4      \* faiss.index, metadata.pkl, documents.pkl, company_index.pkl

(***************************************************************************)
(* Inputs.                                                                 *)
(***************************************************************************)
Symbols == {"AAPL", "aapl", "MSFT"}
NoFilter == ""      \* symbol_filter=None (falsy, like the empty string)
Queries == {"growth", "risk"}

\* str.upper() on the symbols of the model
Upper(s) == IF s = "aapl" THEN "AAPL" ELSE s

Min(a, b) == IF a < b THEN a ELSE b

\* the company_data records add_company_data is called with: whether the
\* "company" category is present and how many news articles there are (the
\* records of the model carry news only along with the company profile)
CompanyData == {d \in [company : BOOLEAN, news : 0..MaxNews] : d.news > 0 => d.company}

(***************************************************************************)
(* Document Formatter and Embedding Provider.  A text is the pair of the   *)
(* category and the symbol the formatter prints into it.  A vector is a    *)
(* pair of integers; Embed is normalize_L2 of the provider's embedding.    *)
(***************************************************************************)
FormatText(type, symbol) == <<type, symbol>>

Doc(type, symbol) == [text |-> FormatText(type, symbol), type |-> type, symbol |-> symbol]

RECURSIVE NewsDocs(_, _)
NewsDocs(symbol, n) ==
    IF n = 0 THEN <<>> ELSE Append(NewsDocs(symbol, n - 1), Doc("news_article", symbol))

\* add_company_data, lines 73-132: the documents of one call
DocumentsToAdd(symbol, data) ==
    (IF data.company THEN <<Doc("company_overview", symbol)>> ELSE <<>>)
        \o NewsDocs(symbol, Min(data.news, NewsLimit))

SymCode(s) == CASE s = "AAPL" -> 1 [] s = "aapl" -> 2 [] OTHER -> 3

\* normalize_L2 gives every vector the same length: the vectors of the model
\* are the integer points of the circle of radius 5, so inner products and
\* squared distances are in units of 1/25
Embed(text) ==
    LET company == text[1] = "company_overview" IN
    CASE SymCode(text[2]) = 1 -> IF company THEN <<4, 3>> ELSE <<3, 4>>
      [] SymCode(text[2]) = 2 -> IF company THEN <<5, 0>> ELSE <<0, 5>>
      [] OTHER -> IF company THEN <<-3, 4>> ELSE <<4, -3>>

QueryVector(q) == IF q = "growth" THEN <<5, 0>> ELSE <<0, 5>>

\* IndexFlatIP score: the inner product
Score(qv, v) == qv[1] * v[1] + qv[2] * v[2]

\* faiss.knn with its default metric (METRIC_L2): the squared distance
Distance(qv, v) == (qv[1] - v[1]) * (qv[1] - v[1]) + (qv[2] - v[2]) * (qv[2] - v[2])

EmbedAll(texts) == [i \in 1..Len(texts) |-> Embed(texts[i])]

(***************************************************************************)
(* Python lists are 0-based; positions are kept 0-based as in the code.    *)
(***************************************************************************)
At(seq, pos) == seq[pos + 1]

\* dict.get(key, [])
Get(ci, key) == IF key \in DOMAIN ci THEN ci[key] ELSE <<>>

\* if key not in d: d[key] = [] ; d[key].append(pos)
Record(ci, key, pos) ==
    [k \in (DOMAIN ci) \cup {key} |-> IF k = key THEN Append(Get(ci, key), pos) ELSE ci[k]]

EmptyIndex == <<>>
NoCompanies == [k \in {} |-> <<>>]

(***************************************************************************)
(* State.                                                                  *)
(***************************************************************************)
VARIABLES
    index,          \* self.index: the vectors of the FAISS index, in position order
    documents,      \* self.documents: the texts
    metadata,       \* self.metadata: the document records
    company_index,  \* self.company_index: symbol -> positions
    disk,           \* the four artifacts under db_path
    adds,           \* add_company_data calls awaiting their embeddings
    rebuilds,       \* _rebuild_index tasks: created, or awaiting their embeddings
    searches,       \* search calls awaiting the query embedding
    last            \* the call the last step completed, with what it returned

\* _deduplicate_news: its argument and, once it returned, its result
VARIABLES news_list, unique_news

dedupVars == <<news_list, unique_news>>

\* get_comprehensive_stock_data: what each _get_*_data coroutine returned,
\* and the record the call returns
VARIABLES fetched, comprehensive_data

fusionVars == <<fetched, comprehensive_data>>

\* _select_best_context: its arguments and, once it returned, its result
VARIABLES context_chunks, max_length, selected

selectVars == <<context_chunks, max_length, selected>>

\* retrieve_context: its arguments, the context_data it builds, the stage it
\* is at (or how it ended), and the collaborator calls it has made
VARIABLES request, context_data, pc, call_log

retrieverVars == <<request, context_data, pc, call_log>>

\* MasterAgent.process_query_sync: its argument, what its collaborators (the
\* research and analysis agents, the synthesis steps) answer, and its result
VARIABLES user_query, agents, agent_result

agentVars == <<user_query, agents, agent_result>>

\* _get_company_data for one symbol: the entry of query_cache under the
\* symbol's key, the time, the calls under way, and what they have done
VARIABLES query_cache, now, retrievals, cache_log

cacheVars == <<query_cache, now, retrievals, cache_log>>

\* RateLimiter: self.calls, the time, the tasks that share the limiter, and
\* the times at which a task went on to its request
VARIABLES limiter_calls, clock, tasks, admitted

limiterVars == <<limiter_calls, clock, tasks, admitted>>

\* the variables of the callers and utilities around the retriever
outerVars == <<agentVars, cacheVars, limiterVars>>

\* the variables of the components around the store
around == <<dedupVars, fusionVars, selectVars, retrieverVars, outerVars>>

vars == <<index, documents, metadata, company_index, disk, adds, rebuilds, searches, last,
          around>>

\* a call that has not returned, and one that returned v
NotReturned == [done |-> FALSE, val |-> <<>>]
Done(v) == [done |-> TRUE, val |-> v]

\* no call of _deduplicate_news is under way
DedupIdle == news_list = <<>> /\ unique_news = NotReturned

\* no call of get_comprehensive_stock_data is under way
FusionIdle ==
    /\ fetched = [c \in {"quote", "company", "historical", "financial", "news", "analyst"} |->
                     [done |-> FALSE,
                      value |-> [kind |-> "None", source |-> "", parts |-> <<>>, items |-> <<>>],
                      calls |-> <<>>]]
    /\ comprehensive_data = NotReturned

\* no call of _select_best_context is under way
SelectIdle == context_chunks = <<>> /\ max_length = 0 /\ selected = NotReturned

\* _extract_symbol_from_query returns None
NoSymbol == ""

\* _get_company_data returns None
NoCompanyData == [present |-> FALSE, quote |-> "None", sources_used |-> <<>>]

\* context_data as retrieve_context creates it
NewContext(symbol) ==
    [symbol |-> symbol, sources |-> <<>>, context_chunks |-> <<>>,
     company_data |-> NoCompanyData, web_news |-> "None", selected_context |-> <<>>,
     formatted_context |-> FALSE]

\* no call of retrieve_context is under way
RetrieverIdle ==
    /\ request = [query |-> <<>>, symbol |-> NoSymbol, max_context_length |-> 0]
    /\ context_data = NewContext(NoSymbol)
    /\ pc = "idle"
    /\ call_log = <<>>

\* no call of process_query_sync is under way
AgentIdle ==
    /\ user_query = <<>>
    /\ agents = [search |-> "none", research |-> "ok", analysis |-> "ok", synthesis |-> "ok"]
    /\ agent_result = NotReturned

\* cache_key not in self.query_cache
NoEntry == [present |-> FALSE, record |-> 0, timestamp |-> 0]

\* no call of _get_company_data was made
CacheIdle ==
    /\ query_cache = NoEntry
    /\ now = 0
    /\ retrievals = <<>>
    /\ cache_log = <<>>

\* a RateLimiter as constructed, with no task using it
LimiterIdle == limiter_calls = <<>> /\ clock = 0 /\ tasks = <<>> /\ admitted = <<>>

OuterIdle == AgentIdle /\ CacheIdle /\ LimiterIdle

AroundIdle == DedupIdle /\ FusionIdle /\ SelectIdle /\ RetrieverIdle /\ OuterIdle


(***************************************************************************)
(* The persisted artifacts.  A file is absent or holds a value.             *)
(***************************************************************************)
Absent == [st |-> "absent", val |-> <<>>]
Holding(v) == [st |-> "ok", val |-> v]

Exists(f) == f.st # "absent"        \* os.path.exists; open() of an absent file raises

\* how a _save_index call can end: the number of artifacts written before an
\* I/O error (swallowed by the except clause) or the end of the process
SaveOutcomes == 0..Artifacts

Written(j, out, old, new) == IF j <= out THEN Holding(new) ELSE old

\* _save_index: faiss.index, metadata.pkl, documents.pkl, company_index.pkl, in this order
SaveIndex(out, idx, meta, docs, ci) ==
    [index         |-> Written(1, out, disk.index, idx),
     metadata      |-> Written(2, out, disk.metadata, meta),
     documents     |-> Written(3, out, disk.documents, docs),
     company_index |-> Written(4, out, disk.company_index, ci)]

\* _create_new_index
NewIndex ==
    [index |-> EmptyIndex, documents |-> <<>>, metadata |-> <<>>, company_index |-> NoCompanies]

\* _initialize_index: what the constructor leaves in memory for the artifacts d
InitializeIndex(d) ==
    IF Exists(d.index) /\ Exists(d.metadata)
    THEN IF Exists(d.documents)
         THEN [index         |-> d.index.val,
               documents     |-> d.documents.val,
               metadata      |-> d.metadata.val,
               company_index |-> IF Exists(d.company_index)
                                 THEN d.company_index.val ELSE NoCompanies]
         ELSE NewIndex
    ELSE NewIndex

(***************************************************************************)
(* What a step reports: the call it completed (if any), the symbol or      *)
(* filter and the query the call was made with, the value returned, and    *)
(* the answer of the embedding provider the call observed.                 *)
(***************************************************************************)
NoCall == [op |-> "none", sym |-> "", query |-> "", val |-> FALSE, emb |-> "none"]
Returned(op, sym, val, emb) ==
    [op |-> op, sym |-> sym, query |-> "", val |-> val, emb |-> emb]
SearchReturned(query, filter, val, emb) ==
    [op |-> "search", sym |-> filter, query |-> query, val |-> val, emb |-> emb]

EmbedAnswers == {"ok", "fail"}      \* get_embeddings: the vectors, or None

Without(seq, i) == [j \in 1..(Len(seq) - 1) |-> IF j < i THEN seq[j] ELSE seq[j + 1]]

StoreInit ==
    /\ index = EmptyIndex
    /\ documents = <<>>
    /\ metadata = <<>>
    /\ company_index = NoCompanies
    /\ disk = [index |-> Absent, metadata |-> Absent, documents |-> Absent,
               company_index |-> Absent]
    /\ adds = <<>>
    /\ rebuilds = <<>>
    /\ searches = <<>>
    /\ last = Returned("init", "", TRUE, "none")

Init == StoreInit /\ AroundIdle

(***************************************************************************)
(* add_company_data                                                        *)
(***************************************************************************)
\* add_company_data up to the await in _add_documents; with no documents to
\* add it returns False at once
AddStart(symbol, data) ==
    LET docs == DocumentsToAdd(symbol, data) IN
    /\ IF docs = <<>>
       THEN /\ last' = Returned("add", symbol, FALSE, "none")
            /\ adds' = adds
       ELSE /\ Len(adds) < MaxAdds
            /\ adds' = Append(adds, [symbol |-> symbol, docs |-> docs])
            /\ last' = NoCall
    /\ UNCHANGED <<index, documents, metadata, company_index, disk, rebuilds, searches>>
    /\ UNCHANGED around

RECURSIVE RecordAll(_, _, _)
\* the loop of _add_documents over enumerate(documents)
RecordAll(ci, docs, start) ==
    IF docs = <<>> THEN ci
    ELSE RecordAll(Record(ci, Head(docs).symbol, start), Tail(docs), start + 1)

\* a batch ingested although its embeddings failed
PartialIngestion(docs, emb) ==
    [index         |-> IF emb = "ok" THEN index \o EmbedAll([i \in 1..Len(docs) |-> docs[i].text])
                       ELSE index,
     documents     |-> documents \o [i \in 1..Len(docs) |-> docs[i].text],
     metadata      |-> metadata \o docs,
     company_index |-> RecordAll(company_index, docs, Len(documents)),
     saved         |-> emb = "ok"]

\* _add_documents after the await: the store it leaves, and whether it
\* reached _save_index
AddDocuments(docs, emb) ==
    IF emb = "fail"
    THEN [index |-> index, documents |-> documents, metadata |-> metadata,
          company_index |-> company_index, saved |-> FALSE]
    ELSE [index         |-> index \o EmbedAll([i \in 1..Len(docs) |-> docs[i].text]),
          documents     |-> documents \o [i \in 1..Len(docs) |-> docs[i].text],
          metadata      |-> metadata \o docs,
          company_index |-> RecordAll(company_index, docs, Len(documents)),
          saved         |-> TRUE]

\* _add_documents with start_idx read before the await instead of after it
AddResumeFromStaleStart(i, emb, out) ==
    /\ i \in 1..Len(adds)
    /\ LET r == AddDocuments(adds[i].docs, emb) IN
        /\ Len(r.documents) <= MaxDocs
        /\ Len(r.index) <= MaxVectors
        /\ index' = r.index
        /\ documents' = r.documents
        /\ metadata' = r.metadata
        /\ company_index' = IF emb = "fail" THEN company_index
                             ELSE RecordAll(company_index, adds[i].docs, adds[i].start)
        /\ disk' = IF r.saved
                   THEN SaveIndex(out, r.index, r.metadata, r.documents, company_index')
                   ELSE disk
        /\ last' = Returned("add", adds[i].symbol, TRUE, emb)
    /\ adds' = Without(adds, i)
    /\ UNCHANGED <<rebuilds, searches>>
    /\ UNCHANGED around

\* the embeddings arrive: the rest of _add_documents, then add_company_data
\* returns True
AddResume(i, emb, out) ==
    /\ i \in 1..Len(adds)
    /\ LET r == AddDocuments(adds[i].docs, emb) IN
        /\ Len(r.documents) <= MaxDocs
        /\ Len(r.index) <= MaxVectors
        /\ index' = r.index
        /\ documents' = r.documents
        /\ metadata' = r.metadata
        /\ company_index' = r.company_index
        /\ disk' = IF r.saved
                   THEN SaveIndex(out, r.index, r.metadata, r.documents, r.company_index)
                   ELSE disk
        /\ last' = Returned("add", adds[i].symbol, TRUE, emb)
    /\ adds' = Without(adds, i)
    /\ UNCHANGED <<rebuilds, searches>>
    /\ UNCHANGED around


(***************************************************************************)
(* remove_company_data and its _rebuild_index task                         *)
(***************************************************************************)
InList(x, seq) == \E j \in 1..Len(seq) : seq[j] = x     \* x in list

RECURSIVE Remaining(_, _)
\* the loop of remove_company_data over the first n pairs of
\* zip(self.documents, self.metadata)
Remaining(indices, n) ==
    IF n = 0
    THEN [documents |-> <<>>, metadata |-> <<>>, company_index |-> NoCompanies]
    ELSE LET r == Remaining(indices, n - 1)
             i == n - 1
         IN  IF InList(i, indices) THEN r
             ELSE [documents     |-> Append(r.documents, At(documents, i)),
                   metadata      |-> Append(r.metadata, At(metadata, i)),
                   company_index |-> Record(r.company_index,
                                            Upper(At(metadata, i).symbol),
                                            Len(r.documents))]

CreatedTask == [pc |-> "created", texts |-> <<>>]

\* remove_company_data(symbol); loop: whether an event loop is running in the
\* caller's thread (asyncio.create_task raises RuntimeError without one, and
\* the except clause turns that into False)
RemoveCompanyData(symbol, loop) ==
    LET indices == Get(company_index, Upper(symbol))
        r == Remaining(indices, Min(Len(documents), Len(metadata)))
    IN
    /\ loop \/ (adds = <<>> /\ rebuilds = <<>> /\ searches = <<>>)
    /\ IF indices # <<>> /\ Len(r.documents) < Len(documents)
       THEN /\ documents' = r.documents
            /\ metadata' = r.metadata
            /\ company_index' = r.company_index
            /\ IF r.documents # <<>>
               THEN /\ index' = index
                    /\ IF loop
                       THEN /\ Len(rebuilds) < MaxRebuilds
                            /\ rebuilds' = Append(rebuilds, CreatedTask)
                            /\ last' = Returned("remove", symbol, TRUE, "none")
                       ELSE /\ rebuilds' = rebuilds
                            /\ last' = Returned("remove", symbol, FALSE, "none")
               ELSE /\ index' = NewIndex.index
                    /\ rebuilds' = rebuilds
                    /\ last' = Returned("remove", symbol, TRUE, "none")
       ELSE /\ last' = Returned("remove", symbol, FALSE, "none")
            /\ UNCHANGED <<index, documents, metadata, company_index, rebuilds>>
    /\ UNCHANGED <<disk, adds, searches>>
    /\ UNCHANGED around

\* _rebuild_index up to its await: the task starts running and hands the
\* current documents to get_embeddings
RebuildStart(i) ==
    /\ i \in 1..Len(rebuilds)
    /\ rebuilds[i].pc = "created"
    /\ IF documents = <<>>
       THEN /\ index' = NewIndex.index
            /\ documents' = NewIndex.documents
            /\ metadata' = NewIndex.metadata
            /\ company_index' = NewIndex.company_index
            /\ rebuilds' = Without(rebuilds, i)
       ELSE /\ rebuilds' = [rebuilds EXCEPT ![i] = [pc |-> "awaiting", texts |-> documents]]
            /\ UNCHANGED <<index, documents, metadata, company_index>>
    /\ last' = NoCall
    /\ UNCHANGED <<disk, adds, searches>>
    /\ UNCHANGED around

\* the index _rebuild_index installs once its embeddings arrived
RebuiltIndex(texts, emb) == IF emb = "fail" THEN index ELSE EmbedAll(texts)

\* the embeddings arrive: the rest of _rebuild_index
RebuildResume(i, emb, out) ==
    /\ i \in 1..Len(rebuilds)
    /\ rebuilds[i].pc = "awaiting"
    /\ index' = RebuiltIndex(rebuilds[i].texts, emb)
    /\ disk' = IF emb = "fail" THEN disk
               ELSE SaveIndex(out, index', metadata, documents, company_index)
    /\ rebuilds' = Without(rebuilds, i)
    /\ last' = NoCall
    /\ UNCHANGED <<documents, metadata, company_index, adds, searches>>
    /\ UNCHANGED around

(***************************************************************************)
(* search                                                                  *)
(***************************************************************************)
\* top-k of a list of scores: the ways to pick kk distinct entries in
\* descending score order with no higher score left out (ties in any order)
Rankings(scores, kk) ==
    {r \in [1..kk -> 1..Len(scores)] :
        /\ \A a, b \in 1..kk : a < b => (r[a] # r[b] /\ scores[r[a]] >= scores[r[b]])
        /\ \A j \in 1..Len(scores) :
              (\A a \in 1..kk : r[a] # j) => \A a \in 1..kk : scores[j] <= scores[r[a]]}

Hit(pos, score) ==
    [text |-> At(documents, pos), metadata |-> At(metadata, pos), score |-> score, index |-> pos]

RECURSIVE Keep(_, _)
\* the result loop of the unfiltered branch: positions outside documents are skipped
Keep(positions, scores) ==
    IF positions = <<>> THEN <<>>
    ELSE IF Head(positions) < Len(documents)
         THEN <<Hit(Head(positions), Head(scores))>> \o Keep(Tail(positions), Tail(scores))
         ELSE Keep(Tail(positions), Tail(scores))

\* search with symbol_filter, after the query embedding arrived; an exception
\* (reconstruct of a position the index does not have, a list index out of
\* range) is caught and gives [].  faiss.knn is called without a metric, so
\* it ranks by ascending squared distance and "score" is that distance
FilteredSearch(qv, k, filter) ==
    LET cands == Get(company_index, Upper(filter))
        n == Len(cands)
    IN  IF cands = <<>> THEN {<<>>}
        ELSE IF \E j \in 1..n : cands[j] >= Len(index) THEN {<<>>}
        ELSE LET scores == [j \in 1..n |-> Distance(qv, At(index, cands[j]))]
                 nearness == [j \in 1..n |-> 0 - scores[j]]
             IN  {IF \E a \in 1..Len(r) :
                        cands[r[a]] >= Len(documents) \/ cands[r[a]] >= Len(metadata)
                  THEN <<>>
                  ELSE [a \in 1..Len(r) |-> Hit(cands[r[a]], scores[r[a]])]
                  : r \in Rankings(nearness, Min(k, n))}

\* search without a filter, after the query embedding arrived
FullSearch(qv, k) ==
    LET scores == [j \in 1..Len(index) |-> Score(qv, index[j])]
    IN  {IF \E a \in 1..Len(r) : r[a] - 1 < Len(documents) /\ r[a] - 1 >= Len(metadata)
         THEN <<>>
         ELSE Keep([a \in 1..Len(r) |-> r[a] - 1], [a \in 1..Len(r) |-> scores[r[a]]])
         : r \in Rankings(scores, Min(k, Len(index)))}

\* the lists search can return in the current state once the query is embedded
SearchResults(qv, k, filter) ==
    IF filter # NoFilter THEN FilteredSearch(qv, k, filter) ELSE FullSearch(qv, k)

\* search up to its await; on an empty index it returns [] at once
SearchStart(query, k, filter) ==
    /\ IF index = EmptyIndex
       THEN /\ last' = SearchReturned(query, filter, <<>>, "none")
            /\ searches' = searches
       ELSE /\ Len(searches) < MaxSearches
            /\ searches' = Append(searches, [query |-> query, k |-> k, filter |-> filter])
            /\ last' = NoCall
    /\ UNCHANGED <<index, documents, metadata, company_index, disk, adds, rebuilds>>
    /\ UNCHANGED around

\* a search that goes on to rank the index although the query embedding failed
SearchWithoutEmbedding(i, emb) ==
    /\ i \in 1..Len(searches)
    /\ LET s == searches[i] IN
        \E res \in SearchResults(QueryVector(s.query), s.k, s.filter) :
            last' = SearchReturned(s.query, s.filter, res, emb)
    /\ searches' = Without(searches, i)
    /\ UNCHANGED <<index, documents, metadata, company_index, disk, adds, rebuilds>>
    /\ UNCHANGED around

\* the query embedding arrives: the rest of search
SearchResume(i, emb) ==
    /\ i \in 1..Len(searches)
    /\ LET s == searches[i] IN
        \E res \in (IF emb = "fail" THEN {<<>>}
                    ELSE SearchResults(QueryVector(s.query), s.k, s.filter)) :
            last' = SearchReturned(s.query, s.filter, res, emb)
    /\ searches' = Without(searches, i)
    /\ UNCHANGED <<index, documents, metadata, company_index, disk, adds, rebuilds>>
    /\ UNCHANGED around

(***************************************************************************)
(* The process ends (at any moment, its tasks with it) and a new one       *)
(* constructs FAISSVectorDB from the artifacts on disk.                    *)
(***************************************************************************)
Restart ==
    /\ LET m == InitializeIndex(disk) IN
        /\ index' = m.index
        /\ documents' = m.documents
        /\ metadata' = m.metadata
        /\ company_index' = m.company_index
    /\ adds' = <<>>
    /\ rebuilds' = <<>>
    /\ searches' = <<>>
    /\ last' = Returned("init", "", TRUE, "none")
    /\ UNCHANGED disk
    /\ UNCHANGED around

FullSave == Artifacts

(***************************************************************************)
(* Spec: the writers of the store in one process, interleaved at their     *)
(* awaits; every _save_index writes its four artifacts.                    *)
(***************************************************************************)
Next ==
    \/ \E symbol \in Symbols, data \in CompanyData : AddStart(symbol, data)
    \/ \E i \in 1..MaxAdds, emb \in EmbedAnswers : AddResume(i, emb, FullSave)
    \/ \E symbol \in Symbols, loop \in BOOLEAN : RemoveCompanyData(symbol, loop)
    \/ \E i \in 1..MaxRebuilds : RebuildStart(i)
    \/ \E i \in 1..MaxRebuilds, emb \in EmbedAnswers : RebuildResume(i, emb, FullSave)

Spec == Init /\ [][Next]_vars

(***************************************************************************)
(* FairSpec: Spec with the event loop's guarantee that a task it holds is  *)
(* run: a created _rebuild_index task starts, and a task awaiting the      *)
(* embedding provider is resumed with the provider's answer.               *)
(***************************************************************************)
FairSpec ==
    /\ Spec
    /\ WF_vars(\E i \in 1..MaxRebuilds : RebuildStart(i))
    /\ WF_vars(\E i \in 1..MaxRebuilds, emb \in EmbedAnswers : RebuildResume(i, emb, FullSave))
    /\ WF_vars(\E i \in 1..MaxAdds, emb \in EmbedAnswers : AddResume(i, emb, FullSave))

(***************************************************************************)
(* SearchSpec: the writers of Spec on two symbols, with searches running   *)
(* between their steps.                                                    *)
(***************************************************************************)
SearchSymbols == {"AAPL", "MSFT"}

SearchNext ==
    \/ \E symbol \in SearchSymbols, data \in CompanyData : AddStart(symbol, data)
    \/ \E i \in 1..MaxAdds, emb \in EmbedAnswers : AddResume(i, emb, FullSave)
    \/ \E symbol \in SearchSymbols, loop \in BOOLEAN : RemoveCompanyData(symbol, loop)
    \/ \E i \in 1..MaxRebuilds : RebuildStart(i)
    \/ \E i \in 1..MaxRebuilds, emb \in EmbedAnswers : RebuildResume(i, emb, FullSave)
    \/ \E query \in Queries, k \in 1..MaxK, filter \in SearchSymbols \cup {NoFilter} :
          SearchStart(query, k, filter)
    \/ \E i \in 1..MaxSearches, emb \in EmbedAnswers : SearchResume(i, emb)

SearchSpec == Init /\ [][SearchNext]_vars

(***************************************************************************)
(* PersistSpec: ingestion with every way a _save_index can end, and the    *)
(* restart of the process from the artifacts on disk.                      *)
(***************************************************************************)
PersistNext ==
    \/ \E symbol \in Symbols, data \in CompanyData : AddStart(symbol, data)
    \/ \E i \in 1..MaxAdds, emb \in EmbedAnswers, out \in SaveOutcomes : AddResume(i, emb, out)
    \/ Restart

PersistSpec == Init /\ [][PersistNext]_vars

(***************************************************************************)
(* OverlapSpec: ingestion alone, with several add_company_data calls       *)
(* suspended at their embedding request at once.  Each suspended call      *)
(* also notes len(documents) at the moment it suspended (start), which the *)
(* code does not keep, to tell afterwards which calls overlapped.          *)
(***************************************************************************)
MaxOverlap == 2     \* add_company_data calls suspended at once in OverlapSpec

\* add_company_data up to the await in _add_documents, for a call that adds
\* documents
AddStartOverlapping(symbol, data) ==
    LET docs == DocumentsToAdd(symbol, data) IN
    /\ docs # <<>>
    /\ Len(adds) < MaxOverlap
    /\ adds' = Append(adds, [symbol |-> symbol, docs |-> docs, start |-> Len(documents)])
    /\ last' = NoCall
    /\ UNCHANGED <<index, documents, metadata, company_index, disk, rebuilds, searches>>
    /\ UNCHANGED around

OverlapNext ==
    \/ \E symbol \in SearchSymbols, data \in CompanyData : AddStartOverlapping(symbol, data)
    \/ \E i \in 1..MaxOverlap, emb \in EmbedAnswers : AddResume(i, emb, FullSave)

OverlapSpec == Init /\ [][OverlapNext]_vars


(***************************************************************************)
(* News Deduplicator (_deduplicate_news, the same code in                  *)
(* StockDataProcessor and in NewsWebScraper).  A title is the sequence of  *)
(* its whitespace-separated words; the empty sequence is a title that is   *)
(* empty once trimmed.                                                     *)
(***************************************************************************)
MaxArticles == 3    \* articles in one news_list

\* str.lower() on the words of the model
Lower(w) == CASE w = "Apple" -> "apple" [] w = "Beats" -> "beats" [] OTHER -> w

Article(title, source, published) ==
    [title |-> title, source |-> source, published |-> published]

\* article.get("title", "").lower().strip()
NormalTitle(article) == [j \in 1..Len(article.title) |-> Lower(article.title[j])]

\* set(title.split())
TitleWords(title) == {title[j] : j \in 1..Len(title)}

Max(a, b) == IF a > b THEN a ELSE b

\* len(A & B) / max(len(A), len(B)) > 0.7, on word counts
OverlapAbove70(A, B) ==
    10 * Cardinality(A \cap B) > 7 * Max(Cardinality(A), Cardinality(B))

RECURSIVE DedupLoop(_, _, _)
\* the loop of _deduplicate_news over the rest of news_list, with the
\* unique_news and seen_titles it has built so far
DedupLoop(rest, unique, seen_titles) ==
    IF rest = <<>> THEN unique
    ELSE LET article == Head(rest)
             title == NormalTitle(article)
             is_duplicate ==
                 \E seen_title \in seen_titles :
                     OverlapAbove70(TitleWords(title), TitleWords(seen_title))
         IN  IF title = <<>> THEN DedupLoop(Tail(rest), unique, seen_titles)
             ELSE IF is_duplicate THEN DedupLoop(Tail(rest), unique, seen_titles)
             ELSE DedupLoop(Tail(rest), Append(unique, article), seen_titles \cup {title})

\* a deduplicator that compares a title with the last accepted title only
DedupAgainstLast(list) ==
    LET RECURSIVE Loop(_, _)
        Loop(rest, unique) ==
            IF rest = <<>> THEN unique
            ELSE LET title == NormalTitle(Head(rest)) IN
                 IF title = <<>> THEN Loop(Tail(rest), unique)
                 ELSE IF /\ unique # <<>>
                         /\ OverlapAbove70(TitleWords(title),
                                           TitleWords(NormalTitle(unique[Len(unique)])))
                      THEN Loop(Tail(rest), unique)
                      ELSE Loop(Tail(rest), Append(unique, Head(rest)))
    IN  Loop(list, <<>>)

\* _deduplicate_news(news_list)
DeduplicateNews(list) == DedupLoop(list, <<>>, {})

\* the articles the deduplicator is called with
DedupArticles ==
    {Article(<<>>, "yahoo_finance", 1),
     Article(<<"Apple", "Beats", "earnings", "estimates">>, "yahoo_finance", 2),
     Article(<<"apple", "beats", "earnings", "estimates">>, "financial_modeling_prep", 3),
     Article(<<"apple", "beats", "earnings", "forecast">>, "financial_modeling_prep", 4),
     Article(<<"apple", "beats", "earnings">>, "yahoo_finance", 5),
     Article(<<"apple", "beats", "targets">>, "financial_modeling_prep", 6),
     Article(<<"tesla", "misses", "targets">>, "yahoo_finance", 7)}

NewsLists == UNION {[1..n -> DedupArticles] : n \in 0..MaxArticles}

\* a call of _deduplicate_news runs to its return
DeduplicateNewsCall ==
    /\ ~unique_news.done
    /\ unique_news' = Done(DeduplicateNews(news_list))
    /\ UNCHANGED news_list
    /\ UNCHANGED <<index, documents, metadata, company_index, disk, adds, rebuilds,
                   searches, last, fusionVars, selectVars, retrieverVars, outerVars>>

(***************************************************************************)
(* DedupSpec: _deduplicate_news called with every list of at most          *)
(* MaxArticles articles.                                                   *)
(***************************************************************************)
DedupInit ==
    /\ StoreInit
    /\ FusionIdle
    /\ SelectIdle
    /\ RetrieverIdle
    /\ OuterIdle
    /\ news_list \in NewsLists
    /\ unique_news = NotReturned

DedupNext == DeduplicateNewsCall

DedupSpec == DedupInit /\ [][DedupNext]_vars


(***************************************************************************)
(* Data Fusion (StockDataProcessor.get_comprehensive_stock_data).  The six *)
(* _get_*_data coroutines run under asyncio.gather and share no state; a   *)
(* step of the model runs one of them from its start to its return, with   *)
(* cfg the outcome of each collector call it may make: "ok" (a non-empty   *)
(* result), "empty" (None or an empty result) or "raise".                  *)
(***************************************************************************)
Collectors == {"yahoo_finance", "alpha_vantage", "financial_modeling_prep"}
Outcomes == {"ok", "empty", "raise"}

Categories == {"quote", "company", "historical", "financial", "news", "analyst"}

\* the values of a category: None, a dict with its "source" and (for the
\* merged categories) the collector behind each of its keys, or a list of
\* articles
NoneValue == [kind |-> "None", source |-> "", parts |-> <<>>, items |-> <<>>]
Dict(source, parts) == [kind |-> "dict", source |-> source, parts |-> parts, items |-> <<>>]
List(items) == [kind |-> "list", source |-> "", parts |-> <<>>, items |-> items]

\* what a _get_*_data coroutine leaves: its result and the calls it made
Fetched(value, calls) == [done |-> TRUE, value |-> value, calls |-> calls]
NotFetched == [done |-> FALSE, value |-> NoneValue, calls |-> <<>>]

QuoteSources == <<"yahoo_finance", "alpha_vantage", "financial_modeling_prep">>
CompanySources == <<"alpha_vantage", "yahoo_finance", "financial_modeling_prep">>
HistoricalSources == <<"yahoo_finance", "alpha_vantage", "financial_modeling_prep">>

FirstWinsConfigs == [Collectors -> Outcomes]

\* a collector call a coroutine made: the collector, the key the call is to
\* fill, and whether it returned a non-empty result without raising
Called(collector, key, outcome) == [collector |-> collector, key |-> key, ok |-> outcome = "ok"]

RECURSIVE LastWins(_, _, _)
\* a loop over the sources that goes on after a success and returns the last one
LastWins(sources, cfg, called) ==
    IF sources = <<>>
    THEN Fetched(IF \E j \in 1..Len(called) : called[j].ok
                 THEN Dict(called[CHOOSE j \in 1..Len(called) :
                                     /\ called[j].ok
                                     /\ \A i \in (j + 1)..Len(called) : ~called[i].ok].collector,
                           <<>>)
                 ELSE NoneValue,
                 called)
    ELSE LastWins(Tail(sources), cfg,
                  Append(called, Called(Head(sources), "", cfg[Head(sources)])))

RECURSIVE FirstWins(_, _, _)
\* the loop of _get_quote_data, _get_company_data and _get_historical_data
\* over the rest of its sources: return the first truthy result, go to the
\* next source on an exception or an empty result
FirstWins(sources, cfg, called) ==
    IF sources = <<>> THEN Fetched(NoneValue, called)
    ELSE LET source_name == Head(sources) IN
         IF cfg[source_name] = "ok"
         THEN Fetched(Dict(source_name, <<>>),
                      Append(called, Called(source_name, "", cfg[source_name])))
         ELSE FirstWins(Tail(sources), cfg,
                        Append(called, Called(source_name, "", cfg[source_name])))

\* the calls of _get_financial_data, in order: the key each fills and its collector
FinancialCalls ==
    <<[key |-> "key_metrics", collector |-> "financial_modeling_prep"],
      [key |-> "financial_ratios", collector |-> "financial_modeling_prep"],
      [key |-> "financial_statements", collector |-> "yahoo_finance"],
      [key |-> "earnings", collector |-> "alpha_vantage"]>>

FinancialKeys == {FinancialCalls[j].key : j \in 1..Len(FinancialCalls)}
FinancialConfigs == [FinancialKeys -> Outcomes]

\* a dict of the keys of K, each with the collector that gave it
Parts(K, by) == [k \in K |-> by[k]]

\* _get_financial_data: every call in its own try; the keys that came back
\* non-empty, under "source": "multiple"
FinancialData(cfg) ==
    LET keys == {k \in FinancialKeys : cfg[k] = "ok"}
        by == [k \in FinancialKeys |->
                  FinancialCalls[CHOOSE j \in 1..Len(FinancialCalls) :
                                     FinancialCalls[j].key = k].collector]
    IN  Fetched(IF keys # {} THEN Dict("multiple", Parts(keys, by)) ELSE NoneValue,
                [j \in 1..Len(FinancialCalls) |->
                    Called(FinancialCalls[j].collector, FinancialCalls[j].key,
                           cfg[FinancialCalls[j].key])])

AnalystCalls == {"recommendations", "estimates", "yahoo_calendar", "fmp_calendar"}
AnalystConfigs == [AnalystCalls -> Outcomes]

\* _get_analyst_data: recommendations (Yahoo) and estimates (FMP) each in
\* their own try; the two earnings-calendar calls share one try, FMP's being
\* made only when Yahoo's returned an empty result
AnalystData(cfg) ==
    LET calendar == IF cfg["yahoo_calendar"] = "ok" THEN {"yahoo_finance"}
                    ELSE IF cfg["yahoo_calendar"] = "empty" /\ cfg["fmp_calendar"] = "ok"
                         THEN {"financial_modeling_prep"}
                         ELSE {}
        keys == (IF cfg["recommendations"] = "ok" THEN {"recommendations"} ELSE {})
                    \cup (IF cfg["estimates"] = "ok" THEN {"estimates"} ELSE {})
                    \cup (IF calendar # {} THEN {"earnings_calendar"} ELSE {})
        by == [k \in {"recommendations", "estimates", "earnings_calendar"} |->
                  CASE k = "recommendations" -> "yahoo_finance"
                    [] k = "estimates" -> "financial_modeling_prep"
                    [] OTHER -> IF calendar = {} THEN "" ELSE CHOOSE c \in calendar : TRUE]
    IN  Fetched(IF keys # {} THEN Dict("multiple", Parts(keys, by)) ELSE NoneValue,
                <<Called("yahoo_finance", "recommendations", cfg["recommendations"]),
                  Called("financial_modeling_prep", "estimates", cfg["estimates"]),
                  Called("yahoo_finance", "earnings_calendar", cfg["yahoo_calendar"])>>
                    \o (IF cfg["yahoo_calendar"] = "empty"
                        THEN <<Called("financial_modeling_prep", "earnings_calendar",
                                      cfg["fmp_calendar"])>>
                        ELSE <<>>))

NewsSources == <<"yahoo_finance", "financial_modeling_prep">>
NewsConfigs == [{"yahoo_finance", "financial_modeling_prep"} -> Outcomes]

\* the articles a news collector returns when it has news
NewsOf(collector) ==
    IF collector = "yahoo_finance"
    THEN <<Article(<<"Apple", "Beats", "earnings", "estimates">>, "yahoo_finance", 2)>>
    ELSE <<Article(<<"apple", "unveils", "new", "phone">>, "financial_modeling_prep", 3),
           Article(<<"apple", "beats", "earnings", "estimates">>, "financial_modeling_prep", 1)>>

RECURSIVE SortNews(_)
\* list.sort(key=published, reverse=True): stable, most recent first
SortNews(list) ==
    IF list = <<>> THEN <<>>
    ELSE LET j == CHOOSE j \in 1..Len(list) :
                      /\ \A i \in 1..Len(list) : list[i].published <= list[j].published
                      /\ \A i \in 1..(j - 1) : list[i].published < list[j].published
         IN  <<list[j]>> \o SortNews(Without(list, j))

\* _get_news_data: every collector's articles, deduplicated and sorted
NewsData(cfg) ==
    LET all_news == (IF cfg["yahoo_finance"] = "ok" THEN NewsOf("yahoo_finance") ELSE <<>>)
                        \o (IF cfg["financial_modeling_prep"] = "ok"
                            THEN NewsOf("financial_modeling_prep") ELSE <<>>)
    IN  Fetched(IF all_news # <<>> THEN List(SortNews(DeduplicateNews(all_news)))
                ELSE NoneValue,
                [j \in 1..Len(NewsSources) |-> Called(NewsSources[j], "", cfg[NewsSources[j]])])

\* the coroutine of a category is still running under asyncio.gather
Pending(category) == ~comprehensive_data.done /\ ~fetched[category].done

\* everything but the results of the coroutines
notFetched ==
    <<comprehensive_data, index, documents, metadata, company_index, disk, adds, rebuilds,
      searches, last, dedupVars, selectVars, retrieverVars, outerVars>>

\* _get_quote_data runs to its return
GetQuoteData(cfg) ==
    /\ Pending("quote")
    /\ fetched' = [fetched EXCEPT !["quote"] = FirstWins(QuoteSources, cfg, <<>>)]
    /\ UNCHANGED notFetched

\* _get_company_data runs to its return
GetCompanyData(cfg) ==
    /\ Pending("company")
    /\ fetched' = [fetched EXCEPT !["company"] = FirstWins(CompanySources, cfg, <<>>)]
    /\ UNCHANGED notFetched

\* _get_historical_data runs to its return
GetHistoricalData(cfg) ==
    /\ Pending("historical")
    /\ fetched' = [fetched EXCEPT !["historical"] = FirstWins(HistoricalSources, cfg, <<>>)]
    /\ UNCHANGED notFetched

\* _get_financial_data runs to its return
GetFinancialData(cfg) ==
    /\ Pending("financial")
    /\ fetched' = [fetched EXCEPT !["financial"] = FinancialData(cfg)]
    /\ UNCHANGED notFetched

\* _get_news_data runs to its return
GetNewsData(cfg) ==
    /\ Pending("news")
    /\ fetched' = [fetched EXCEPT !["news"] = NewsData(cfg)]
    /\ UNCHANGED notFetched

\* _get_analyst_data runs to its return
GetAnalystData(cfg) ==
    /\ Pending("analyst")
    /\ fetched' = [fetched EXCEPT !["analyst"] = AnalystData(cfg)]
    /\ UNCHANGED notFetched

\* the categories in the order of the keys of comprehensive_data
CategoryOrder == <<"quote", "company", "historical", "financial", "news", "analyst">>

RECURSIVE SourcesUsed(_, _)
\* the loop that fills sources_used over the first n categories: the "source"
\* of a dict, the "source" of the first element of a non-empty list, each once
SourcesUsed(data, n) ==
    IF n = 0 THEN <<>>
    ELSE LET used == SourcesUsed(data, n - 1)
             value == data[CategoryOrder[n]]
             source == IF value.kind = "dict" THEN value.source
                       ELSE IF value.kind = "list" /\ value.items # <<>>
                            THEN value.items[1].source
                            ELSE ""
         IN  IF source = "" \/ InList(source, used) THEN used ELSE Append(used, source)

\* asyncio.gather returned: the record of the six categories with sources_used
\* (no _get_*_data coroutine raises, every collector call being inside a try)
Gather ==
    /\ ~comprehensive_data.done
    /\ \A c \in Categories : fetched[c].done
    /\ LET data == [c \in Categories |-> fetched[c].value] IN
        comprehensive_data' =
            Done([data |-> data, sources_used |-> SourcesUsed(data, Len(CategoryOrder))])
    /\ UNCHANGED fetched
    /\ UNCHANGED <<index, documents, metadata, company_index, disk, adds, rebuilds,
                   searches, last, dedupVars, selectVars, retrieverVars, outerVars>>

(***************************************************************************)
(* FusionSpec: one get_comprehensive_stock_data call with every outcome of *)
(* its collector calls.                                                    *)
(***************************************************************************)
FusionInit ==
    StoreInit /\ DedupIdle /\ FusionIdle /\ SelectIdle /\ RetrieverIdle /\ OuterIdle

FusionNext ==
    \/ \E cfg \in FirstWinsConfigs : GetQuoteData(cfg)
    \/ \E cfg \in FirstWinsConfigs : GetCompanyData(cfg)
    \/ \E cfg \in FirstWinsConfigs : GetHistoricalData(cfg)
    \/ \E cfg \in FinancialConfigs : GetFinancialData(cfg)
    \/ \E cfg \in NewsConfigs : GetNewsData(cfg)
    \/ \E cfg \in AnalystConfigs : GetAnalystData(cfg)
    \/ Gather

FusionSpec == FusionInit /\ [][FusionNext]_vars


(***************************************************************************)
(* Context selection (StockRAGRetriever._select_best_context).  A chunk is *)
(* modelled by the length of its text, the type in its metadata and its    *)
(* score in hundredths.                                                    *)
(***************************************************************************)
MaxChunks == 4      \* candidate chunks in one call
MaxBudget == 6      \* largest max_context_length

MaxSelected == 8        \* len(selected) >= 8
MinRelevance == 60      \* adjusted_score > 0.6
TypePenalty == 10       \* type_penalty = 0.1

Chunk(length, type, score) == [length |-> length, type |-> type, score |-> score]

RECURSIVE SortByScore(_)
\* sorted(context_chunks, key=score, reverse=True): stable, best first
SortByScore(chunks) ==
    IF chunks = <<>> THEN <<>>
    ELSE LET j == CHOOSE j \in 1..Len(chunks) :
                      /\ \A i \in 1..Len(chunks) : chunks[i].score <= chunks[j].score
                      /\ \A i \in 1..(j - 1) : chunks[i].score < chunks[j].score
         IN  <<chunks[j]>> \o SortByScore(Without(chunks, j))

RECURSIVE SelectLoopWithoutStop(_, _, _, _, _)
\* a loop that goes through all of sorted_chunks: no early stop
SelectLoopWithoutStop(rest, max, picked, total_length, seen_types) ==
    IF rest = <<>> THEN picked
    ELSE LET chunk == Head(rest)
             adjusted_score ==
                 chunk.score - (IF chunk.type \in seen_types THEN TypePenalty ELSE 0)
         IN  IF total_length + chunk.length <= max /\ adjusted_score > MinRelevance
             THEN SelectLoopWithoutStop(Tail(rest), max, Append(picked, chunk),
                                        total_length + chunk.length,
                                        seen_types \cup {chunk.type})
             ELSE SelectLoopWithoutStop(Tail(rest), max, picked, total_length, seen_types)

RECURSIVE SelectLoop(_, _, _, _, _)
\* the loop of _select_best_context over the rest of sorted_chunks
SelectLoop(rest, max, picked, total_length, seen_types) ==
    IF rest = <<>> THEN picked
    ELSE LET chunk == Head(rest)
             adjusted_score ==
                 chunk.score - (IF chunk.type \in seen_types THEN TypePenalty ELSE 0)
         IN  IF total_length + chunk.length > max
             THEN SelectLoop(Tail(rest), max, picked, total_length, seen_types)
             ELSE IF adjusted_score > MinRelevance
                  THEN IF \/ Len(picked) + 1 >= MaxSelected
                          \/ 10 * (total_length + chunk.length) > 8 * max
                       THEN Append(picked, chunk)
                       ELSE SelectLoop(Tail(rest), max, Append(picked, chunk),
                                       total_length + chunk.length,
                                       seen_types \cup {chunk.type})
                  ELSE SelectLoop(Tail(rest), max, picked, total_length, seen_types)

RECURSIVE SelectIgnoringBudget(_, _)
\* a selection that accepts every chunk of sufficient score, whatever its length
SelectIgnoringBudget(chunks, max) ==
    IF chunks = <<>> THEN <<>>
    ELSE IF Head(chunks).score > MinRelevance
         THEN <<Head(chunks)>> \o SelectIgnoringBudget(Tail(chunks), max)
         ELSE SelectIgnoringBudget(Tail(chunks), max)

\* _select_best_context(context_chunks, query, max_length)
SelectBestContext(chunks, max) ==
    IF chunks = <<>> THEN <<>>
    ELSE SelectLoop(SortByScore(chunks), max, <<>>, 0, {})

\* the candidate chunks and the budgets _select_best_context is called with
Chunks ==
    {Chunk(length, type, score) :
        length \in 1..2, type \in {"company_overview", "news_article"}, score \in {65, 90}}

\* more chunks than _select_best_context ever returns, of empty text
ManyChunks ==
    {[j \in 1..n |-> Chunk(0, "news_article", 90)] : n \in MaxSelected..(MaxSelected + 2)}

ChunkLists == UNION {[1..n -> Chunks] : n \in 0..MaxChunks} \cup ManyChunks

Budgets == 0..MaxBudget

\* a call of _select_best_context runs to its return
SelectBestContextCall ==
    /\ ~selected.done
    /\ selected' = Done(SelectBestContext(context_chunks, max_length))
    /\ UNCHANGED <<context_chunks, max_length>>
    /\ UNCHANGED <<index, documents, metadata, company_index, disk, adds, rebuilds,
                   searches, last, dedupVars, fusionVars, retrieverVars, outerVars>>

(***************************************************************************)
(* SelectSpec: _select_best_context called with every list of at most      *)
(* MaxChunks chunks and every budget up to MaxBudget.                      *)
(***************************************************************************)
SelectInit ==
    /\ StoreInit
    /\ DedupIdle
    /\ FusionIdle
    /\ RetrieverIdle
    /\ OuterIdle
    /\ context_chunks \in ChunkLists
    /\ max_length \in Budgets
    /\ selected = NotReturned

SelectNext == SelectBestContextCall

SelectSpec == SelectInit /\ [][SelectNext]_vars


(***************************************************************************)
(* Symbol extraction (_extract_symbol_from_query).  A query is the         *)
(* sequence of its whitespace-separated tokens, a token the sequence of    *)
(* its runs: a maximal run of letters, or one character that is not a      *)
(* letter (the queries of the model hold no digit and no underscore).      *)
(***************************************************************************)
NotLetters == {"$", "'", "?", ":", " "}

IsLetters(run) == run \notin NotLetters

\* str.upper() on the runs of the model
ToUpper(run) ==
    CASE run = "What" -> "WHAT" [] run = "s" -> "S" [] run = "worth" -> "WORTH"
      [] run = "today" -> "TODAY" [] run = "Tell" -> "TELL" [] run = "me" -> "ME"
      [] run = "about" -> "ABOUT" [] run = "the" -> "THE" [] run = "market" -> "MARKET"
      [] run = "earnings" -> "EARNINGS" [] run = "Microsoft" -> "MICROSOFT"
      [] run = "outlook" -> "OUTLOOK" [] run = "Explain" -> "EXPLAIN"
      [] run = "stock" -> "STOCK"
      [] OTHER -> run

\* str.lower() on the runs of the model
ToLower(run) ==
    CASE run = "What" -> "what" [] run = "Tell" -> "tell" [] run = "AAPL" -> "aapl"
      [] run = "MSFT" -> "msft" [] run = "Microsoft" -> "microsoft"
      [] run = "Explain" -> "explain"
      [] OTHER -> run

RECURSIVE Flat(_)
\* the runs of a text in order, tokens separated by one blank
Flat(text) ==
    IF text = <<>> THEN <<>>
    ELSE IF Len(text) = 1 THEN Head(text)
         ELSE Head(text) \o <<" ">> \o Flat(Tail(text))

\* query.upper()
UpperText(query) == LET f == Flat(query) IN [j \in 1..Len(f) |-> ToUpper(f[j])]

\* ([A-Z]{1,5}) with a word boundary on both sides: a whole run of one to
\* five capital letters
TickerShaped(run) == IsLetters(run) /\ ToUpper(run) = run /\ Len(run) \in 1..5

\* r'\b([A-Z]{1,5})\b(?:\s+stock|\s+shares?|\s+company)?'
PlainTicker(text, j) == TickerShaped(text[j])

\* r'\$([A-Z]{1,5})\b'
DollarTicker(text, j) == j > 1 /\ text[j - 1] = "$" /\ TickerShaped(text[j])

\* r'\b([A-Z]{1,5})\s+(?:stock|shares?|company|corp|inc)\b'
TickerBeforeNoun(text, j) ==
    /\ TickerShaped(text[j])
    /\ j + 2 <= Len(text)
    /\ text[j + 1] = " "
    /\ text[j + 2] \in {"stock", "share", "shares", "company", "corp", "inc"}

\* r'(?:ticker|symbol):\s*([A-Z]{1,5})'
TickerAfterLabel(text, j) ==
    /\ TickerShaped(text[j])
    /\ \/ j > 2 /\ text[j - 1] = ":" /\ text[j - 2] \in {"ticker", "symbol"}
       \/ j > 3 /\ text[j - 1] = " " /\ text[j - 2] = ":" /\ text[j - 3] \in {"ticker", "symbol"}

\* whether the named pattern matches with its group at position j of text
MatchesAt(pattern, text, j) ==
    CASE pattern = "plain" -> PlainTicker(text, j)
      [] pattern = "dollar" -> DollarTicker(text, j)
      [] pattern = "before_noun" -> TickerBeforeNoun(text, j)
      [] pattern = "after_label" -> TickerAfterLabel(text, j)

RECURSIVE Matches(_, _, _)
\* re.findall: the groups captured at the positions of text, from position j
\* on, where the pattern matches
Matches(text, pattern, j) ==
    IF j > Len(text) THEN <<>>
    ELSE (IF MatchesAt(pattern, text, j) THEN <<text[j]>> ELSE <<>>)
            \o Matches(text, pattern, j + 1)

\* the three patterns of StockRAGRetriever._extract_symbol_from_query tried in
\* order on query.upper(): the first match of the first pattern that matches
PatternSymbol(query) ==
    LET text == UpperText(query)
        m1 == Matches(text, "plain", 1)
        m2 == Matches(text, "dollar", 1)
        m3 == Matches(text, "before_noun", 1)
    IN  IF m1 # <<>> THEN m1[1]
        ELSE IF m2 # <<>> THEN m2[1]
        ELSE IF m3 # <<>> THEN m3[1]
        ELSE NoSymbol

excluded_words ==
    {"THE", "AND", "FOR", "ARE", "BUT", "NOT", "YOU", "ALL", "CAN", "HAD", "HER", "WAS",
     "ONE", "OUR", "OUT", "DAY", "GET", "HAS", "HIM", "HIS", "HOW", "MAN", "NEW", "NOW",
     "OLD", "SEE", "TWO", "WHO", "BOY", "DID", "ITS", "LET", "PUT", "SAY", "SHE", "TOO",
     "USE"}

\* MasterAgent._extract_symbol_from_query: the first match, over its three
\* patterns in order, that is not an excluded word
AgentSymbol(query) ==
    LET text == UpperText(query)
        m == Matches(text, "plain", 1) \o Matches(text, "dollar", 1)
                 \o Matches(text, "after_label", 1)
        kept == {j \in 1..Len(m) : m[j] \notin excluded_words}
    IN  IF kept = {} THEN NoSymbol ELSE m[CHOOSE j \in kept : \A i \in kept : j <= i]

stop_words ==
    {"stock", "share", "shares", "company", "corp", "corporation", "inc", "ltd", "price",
     "performance", "analysis", "recent", "latest", "current", "tell", "me", "about",
     "what", "how", "is", "the", "a", "an", "and", "or"}

RECURSIVE Joined(_)
\* the characters of a token as one string
Joined(token) == IF token = <<>> THEN "" ELSE Head(token) \o Joined(Tail(token))

RECURSIVE MeaningfulWords(_)
\* [word for word in query.lower().split() if word not in stop_words and len(word) > 2]
MeaningfulWords(query) ==
    IF query = <<>> THEN <<>>
    ELSE LET word == Joined([j \in 1..Len(Head(query)) |-> ToLower(Head(query)[j])])
         IN  (IF word \notin stop_words /\ Len(word) > 2 THEN <<word>> ELSE <<>>)
                 \o MeaningfulWords(Tail(query))

\* _extract_company_keywords: the first three meaningful words
CompanyKeywords(query) ==
    LET words == MeaningfulWords(query) IN SubSeq(words, 1, Min(3, Len(words)))

news_keywords ==
    {"recent", "latest", "news", "current", "today", "yesterday", "this week",
     "this month", "breaking", "announcement", "earnings", "report", "update",
     "development"}

\* _needs_recent_news: a keyword occurs in query.lower() (in the queries of
\* the model a keyword occurs only as a whole run)
NeedsRecentNews(query) ==
    \E j \in 1..Len(Flat(query)) : ToLower(Flat(query)[j]) \in news_keywords

(***************************************************************************)
(* Context retriever (StockRAGRetriever.retrieve_context) with a fresh     *)
(* query_cache.  A step of the model is one stage of the call, taken with  *)
(* the answer of the collaborator the stage awaits (Data Fusion, the       *)
(* vector store, the news scraper).                                        *)
(***************************************************************************)
MaxHits == 2        \* results one vector search returns

UserQueries ==
    {<<<<"What", "'", "s">>, <<"$", "AAPL">>, <<"worth">>, <<"today", "?">>>>,
     <<<<"Tell">>, <<"me">>, <<"about">>, <<"the">>, <<"market">>>>,
     <<<<"$", "AAPL">>, <<"earnings">>>>,
     <<<<"the">>, <<"MSFT">>, <<"stock">>>>,
     <<<<"Microsoft">>, <<"earnings">>>>,
     <<<<"Explain">>, <<"market">>, <<"outlook">>>>}

\* retrieve_context(query, symbol, max_context_length)
Requests == [query : UserQueries, symbol : {NoSymbol, "AAPL"}, max_context_length : Budgets]

\* the quote of a comprehensive record, by its "volume": no quote, a number,
\* no "volume" key, or a null "volume"
QuoteValues == {"None", "complete", "no_volume", "null_volume"}

\* what get_comprehensive_stock_data can return
CompanyRecords ==
    {[present |-> TRUE, quote |-> q,
      sources_used |-> IF q = "None" THEN <<>> ELSE <<"financial_modeling_prep">>] :
        q \in QuoteValues}

\* what vector_db.search can return
VectorHits ==
    UNION {[1..n -> {Chunk(1, "company_overview", 90), Chunk(2, "news_article", 90),
                     Chunk(1, "company_overview", 71), Chunk(1, "news_article", 70)}] :
              n \in 0..MaxHits}

\* the top symbol of stock_data_processor.search_company, if it has a hit
SearchHits == {NoSymbol, "MSFT"}

\* _get_web_news: None after an exception, an empty list, or articles
WebNews == {"None", "empty", "articles"}

Call(callee, result) == [callee |-> callee, result |-> result]

notRetriever ==
    <<index, documents, metadata, company_index, disk, adds, rebuilds, searches, last,
      dedupVars, fusionVars, selectVars, outerVars>>

\* step 1: the caller's symbol, or _extract_symbol_from_query: the patterns,
\* then the company search on the keywords of the query
ExtractSymbol(hit) ==
    /\ pc = "extract"
    /\ LET pattern == PatternSymbol(request.query)
           searched == /\ request.symbol = NoSymbol
                       /\ pattern = NoSymbol
                       /\ CompanyKeywords(request.query) # <<>>
           symbol == IF request.symbol # NoSymbol THEN request.symbol
                     ELSE IF pattern # NoSymbol THEN pattern
                     ELSE IF searched THEN hit
                     ELSE NoSymbol
       IN  /\ context_data' = [context_data EXCEPT !.symbol = symbol]
           /\ call_log' = IF searched
                       THEN Append(call_log, Call("search_company",
                                               IF hit = NoSymbol THEN "none" ELSE "hit"))
                       ELSE call_log
           /\ pc' = IF symbol # NoSymbol THEN "company" ELSE "select"
    /\ UNCHANGED request
    /\ UNCHANGED notRetriever

\* step 2: _get_company_data: the comprehensive record (None after an
\* exception), handed to vector_db.add_company_data
RefreshCompanyData(company_data) ==
    /\ pc = "company"
    /\ context_data' =
          [context_data EXCEPT
              !.company_data = company_data,
              !.sources = IF company_data.present THEN @ \o company_data.sources_used ELSE @]
    /\ call_log' = Append(call_log, Call("get_comprehensive_stock_data",
                                   IF company_data.present THEN "record" ELSE "raise"))
                    \o (IF company_data.present
                        THEN <<Call("add_company_data", "ignored")>> ELSE <<>>)
    /\ pc' = "vector"
    /\ UNCHANGED request
    /\ UNCHANGED notRetriever

\* a floor that lets a score of exactly 0.7 through
ConfidenceFromFloor(results) == SelectSeq(results, LAMBDA r : r.score >= 70)

\* the results of score > 0.7
HighConfidence(results) == SelectSeq(results, LAMBDA r : r.score > 70)

\* vector_db.search(query, k=10, symbol_filter=symbol) and
\* vector_db.search(query, k=5), with whether results came back
SymbolSearchCall(results) ==
    Call("vector_db.search(k=10, symbol_filter)", IF results = <<>> THEN "empty" ELSE "results")

BroaderSearchCall(results) ==
    Call("vector_db.search(k=5)", IF results = <<>> THEN "empty" ELSE "results")

\* a stage 3 that searches again whenever the filtered search left no result
\* of high confidence
SearchAgainOnLowConfidence(filtered, broader) ==
    /\ pc = "vector"
    /\ LET again == HighConfidence(filtered) = <<>>
           results == IF again THEN broader ELSE filtered
       IN  /\ context_data' =
                  [context_data EXCEPT !.context_chunks = @ \o HighConfidence(results)]
           /\ call_log' = Append(call_log, SymbolSearchCall(filtered))
                              \o (IF again THEN <<BroaderSearchCall(broader)>> ELSE <<>>)
    /\ pc' = IF NeedsRecentNews(request.query) THEN "news" ELSE "select"
    /\ UNCHANGED request
    /\ UNCHANGED notRetriever

\* step 3: _search_vector_db: the search filtered to the symbol, the broader
\* search when that returns nothing
SearchVectorDb(filtered, broader) ==
    /\ pc = "vector"
    /\ LET results == IF filtered = <<>> THEN broader ELSE filtered IN
        context_data' =
            [context_data EXCEPT !.context_chunks = @ \o HighConfidence(results)]
    /\ call_log' = Append(call_log, SymbolSearchCall(filtered))
                    \o (IF filtered = <<>> THEN <<BroaderSearchCall(broader)>> ELSE <<>>)
    /\ pc' = IF NeedsRecentNews(request.query) THEN "news" ELSE "select"
    /\ UNCHANGED request
    /\ UNCHANGED notRetriever

\* step 4: _get_web_news, for a query that asks for recent news
GetWebNews(web_news) ==
    /\ pc = "news"
    /\ context_data' =
          [context_data EXCEPT
              !.web_news = web_news,
              !.sources = IF web_news = "articles" THEN Append(@, "web_scraping") ELSE @]
    /\ call_log' = Append(call_log, Call("get_comprehensive_news", web_news))
    /\ pc' = "select"
    /\ UNCHANGED request
    /\ UNCHANGED notRetriever

\* step 5: _select_best_context
SelectContext ==
    /\ pc = "select"
    /\ context_data' =
          [context_data EXCEPT
              !.selected_context =
                  SelectBestContext(context_data.context_chunks, request.max_context_length)]
    /\ pc' = "format"
    /\ UNCHANGED <<request, call_log>>
    /\ UNCHANGED notRetriever

\* f"Volume: {quote.get('volume', 'N/A'):,}" raises ValueError for the
\* default 'N/A' and TypeError for None
FormatRaises(data) ==
    /\ data.company_data.present
    /\ data.company_data.quote \in {"no_volume", "null_volume"}

\* step 6: _format_context_for_llm, outside any try: retrieve_context returns
\* the bundle, or the exception of the formatter leaves it
FormatContext ==
    /\ pc = "format"
    /\ IF FormatRaises(context_data)
       THEN pc' = "raised" /\ UNCHANGED context_data
       ELSE /\ pc' = "returned"
            /\ context_data' = [context_data EXCEPT !.formatted_context = TRUE]
    /\ UNCHANGED <<request, call_log>>
    /\ UNCHANGED notRetriever

(***************************************************************************)
(* RetrieverSpec: one retrieve_context call for every request and every    *)
(* answer of its collaborators.                                            *)
(***************************************************************************)
RetrieverInit ==
    /\ StoreInit
    /\ DedupIdle
    /\ FusionIdle
    /\ SelectIdle
    /\ OuterIdle
    /\ request \in Requests
    /\ context_data = NewContext(request.symbol)
    /\ pc = "extract"
    /\ call_log = <<>>

RetrieverNext ==
    \/ \E hit \in SearchHits : ExtractSymbol(hit)
    \/ \E company_data \in CompanyRecords \cup {NoCompanyData} : RefreshCompanyData(company_data)
    \/ \E filtered, broader \in VectorHits : SearchVectorDb(filtered, broader)
    \/ \E web_news \in WebNews : GetWebNews(web_news)
    \/ SelectContext
    \/ FormatContext

RetrieverSpec == RetrieverInit /\ [][RetrieverNext]_vars

(***************************************************************************)
(* A collaborator that never responds.  No await of retrieve_context, of   *)
(* get_comprehensive_stock_data (asyncio.gather of the six category        *)
(* fetches), of APIClient.get or of get_comprehensive_news is wrapped in a *)
(* timeout, so the call stays suspended at the stage that awaits the       *)
(* answer: no step of the code is enabled after it.                        *)
(***************************************************************************)
\* the stage at pc awaits an external answer
AwaitsAnswer ==
    \/ pc \in {"company", "vector", "news"}
    \/ /\ pc = "extract"
       /\ request.symbol = NoSymbol
       /\ PatternSymbol(request.query) = NoSymbol
       /\ CompanyKeywords(request.query) # <<>>

\* the answer the stage awaits never comes
NeverResponds ==
    /\ AwaitsAnswer
    /\ pc' = "suspended"
    /\ call_log' = Append(call_log, Call(pc, "no answer"))
    /\ UNCHANGED <<request, context_data>>
    /\ UNCHANGED notRetriever

HangNext == RetrieverNext \/ NeverResponds

\* the event loop runs every step that is enabled
HangSpec == RetrieverInit /\ [][HangNext]_vars /\ WF_vars(HangNext)

(***************************************************************************)
(* Master agent (MasterAgent.process_query_sync).  A result is modelled by *)
(* its "status" and its "symbol".                                          *)
(***************************************************************************)
\* the queries process_query_sync is called with: those of the retriever and
\* the empty string
AgentQueries == UserQueries \cup {<<>>}

\* research_agent.search_companies: results, none, or an exception;
\* research_company_sync and analyze_stock_sync: a result or one with "error";
\* _synthesize_results_sync and _generate_final_response_sync: return or raise
AgentOutcomes ==
    [search : {"results", "none", "raise"}, research : {"ok", "error"},
     analysis : {"ok", "error"}, synthesis : {"ok", "raise"}]

AgentResult(status, symbol) == [status |-> status, symbol |-> symbol]

\* _handle_no_symbol_query_sync: every branch, the except included, returns
\* "needs_clarification"
HandleNoSymbolQuerySync(query, search) ==
    IF search = "results" THEN AgentResult("needs_clarification", NoSymbol)
    ELSE IF search = "none" THEN AgentResult("needs_clarification", NoSymbol)
    ELSE AgentResult("needs_clarification", NoSymbol)

\* process_query_sync(user_query)
ProcessQuerySync(query, outcome) ==
    LET symbol == AgentSymbol(query) IN
        IF symbol = NoSymbol THEN HandleNoSymbolQuerySync(query, outcome.search)
        ELSE IF outcome.research = "error" THEN AgentResult("failed", symbol)
        ELSE IF outcome.analysis = "error" THEN AgentResult("partial", symbol)
        ELSE IF outcome.synthesis = "raise" THEN AgentResult("failed", NoSymbol)
        ELSE AgentResult("completed", symbol)

\* a call of process_query_sync runs to its return
ProcessQuerySyncCall ==
    /\ ~agent_result.done
    /\ agent_result' = Done(ProcessQuerySync(user_query, agents))
    /\ UNCHANGED <<user_query, agents>>
    /\ UNCHANGED <<index, documents, metadata, company_index, disk, adds, rebuilds,
                   searches, last, dedupVars, fusionVars, selectVars, retrieverVars,
                   cacheVars, limiterVars>>

(***************************************************************************)
(* AgentSpec: process_query_sync called with every query of the model and  *)
(* every answer of its collaborators.                                      *)
(***************************************************************************)
AgentInit ==
    /\ StoreInit
    /\ DedupIdle
    /\ FusionIdle
    /\ SelectIdle
    /\ RetrieverIdle
    /\ CacheIdle
    /\ LimiterIdle
    /\ user_query \in AgentQueries
    /\ agents \in AgentOutcomes
    /\ agent_result = NotReturned

AgentNext == ProcessQuerySyncCall

AgentSpec == AgentInit /\ [][AgentNext]_vars

(***************************************************************************)
(* Company-data cache (StockRAGRetriever._get_company_data) for one        *)
(* symbol.  Time advances in ticks of ten minutes; a record is modelled by *)
(* the number of the fetch that produced it.  Each caller makes one call;  *)
(* a call is suspended while it awaits Data Fusion and while it awaits     *)
(* add_company_data, and other calls run meanwhile.                        *)
(***************************************************************************)
MaxCallers == 2     \* retrieve_context calls for the symbol
MaxTime == 3        \* ticks the clock advances

cache_duration == 3     \* timedelta(minutes=30), in ticks

Callers == 1..MaxCallers

\* self.query_cache[cache_key] = (company_data, datetime.now())
Entry(record, timestamp) == [present |-> TRUE, record |-> record, timestamp |-> timestamp]

\* a cached entry is used while datetime.now() - timestamp <= cache_duration
FreshUpTo(entry, t) == entry.present /\ t - entry.timestamp <= cache_duration

\* cache_key in self.query_cache and datetime.now() - timestamp < self.cache_duration
Fresh(entry, t) == entry.present /\ t - entry.timestamp < cache_duration

Retrieval(at, record) == [at |-> at, record |-> record]

Event(kind, caller, record, at, seen) ==
    [kind |-> kind, caller |-> caller, record |-> record, at |-> at, seen |-> seen]

\* the records fetched so far
Fetches == Len(SelectSeq(cache_log, LAMBDA e : e.kind = "store"))

notCache ==
    <<index, documents, metadata, company_index, disk, adds, rebuilds, searches, last,
      dedupVars, fusionVars, selectVars, retrieverVars, agentVars, limiterVars>>

\* time passes
Tick ==
    /\ now < MaxTime
    /\ now' = now + 1
    /\ UNCHANGED <<query_cache, retrievals, cache_log>>
    /\ UNCHANGED notCache

\* a caller that fetches whatever the cache holds
LookupIgnoringCache(c) ==
    /\ retrievals[c].at = "start"
    /\ retrievals' = [retrievals EXCEPT ![c] = Retrieval("fetching", 0)]
    /\ cache_log' = cache_log \o <<Event("lookup", c, 0, now, query_cache),
                                   Event("fusion", c, 0, now, NoEntry)>>
    /\ UNCHANGED <<query_cache, now>>
    /\ UNCHANGED notCache

\* lines 122-133: the cached record while it is fresh, else the call of
\* get_comprehensive_stock_data, which suspends
CacheLookup(c) ==
    /\ retrievals[c].at = "start"
    /\ IF Fresh(query_cache, now)
       THEN /\ retrievals' = [retrievals EXCEPT ![c] = Retrieval("returned", query_cache.record)]
            /\ cache_log' = Append(cache_log, Event("lookup", c, 0, now, query_cache))
       ELSE /\ retrievals' = [retrievals EXCEPT ![c] = Retrieval("fetching", 0)]
            /\ cache_log' = cache_log \o <<Event("lookup", c, 0, now, query_cache),
                                           Event("fusion", c, 0, now, NoEntry)>>
    /\ UNCHANGED <<query_cache, now>>
    /\ UNCHANGED notCache

\* lines 133-140: Data Fusion returns its record: it is written to the cache
\* with the time of the write, and then add_company_data is called with it,
\* which suspends at its embedding request
FusionReturns(c) ==
    /\ retrievals[c].at = "fetching"
    /\ LET record == Fetches + 1 IN
        /\ query_cache' = Entry(record, now)
        /\ retrievals' = [retrievals EXCEPT ![c] = Retrieval("ingesting", record)]
        /\ cache_log' = cache_log \o <<Event("store", c, record, now, NoEntry),
                                       Event("ingest", c, record, now, NoEntry)>>
    /\ UNCHANGED now
    /\ UNCHANGED notCache

\* lines 144-146: an exception of the fetch: None is returned, nothing stored
FusionRaises(c) ==
    /\ retrievals[c].at = "fetching"
    /\ retrievals' = [retrievals EXCEPT ![c] = Retrieval("returned", 0)]
    /\ UNCHANGED <<query_cache, now, cache_log>>
    /\ UNCHANGED notCache

\* lines 139-142: add_company_data has ingested the record (or failed, which
\* it reports by False, unread here); the record is returned
IngestReturns(c) ==
    /\ retrievals[c].at = "ingesting"
    /\ retrievals' = [retrievals EXCEPT ![c] = Retrieval("returned", retrievals[c].record)]
    /\ UNCHANGED <<query_cache, now, cache_log>>
    /\ UNCHANGED notCache

(***************************************************************************)
(* CacheSpec: MaxCallers calls of _get_company_data for one symbol, in any *)
(* interleaving with each other and with the clock.                        *)
(***************************************************************************)
CacheInit ==
    /\ StoreInit
    /\ DedupIdle
    /\ FusionIdle
    /\ SelectIdle
    /\ RetrieverIdle
    /\ AgentIdle
    /\ LimiterIdle
    /\ query_cache = NoEntry
    /\ now = 0
    /\ retrievals = [c \in Callers |-> Retrieval("start", 0)]
    /\ cache_log = <<>>

CacheNext ==
    \/ Tick
    \/ \E c \in Callers :
        \/ CacheLookup(c)
        \/ FusionReturns(c)
        \/ FusionRaises(c)
        \/ IngestReturns(c)

CacheSpec == CacheInit /\ [][CacheNext]_vars

(***************************************************************************)
(* RateLimiter (utils/helpers.py) as its callers use it: a task awaits     *)
(* wait_if_needed, sends its request, and calls record_call once the       *)
(* answer has arrived and was handled.  Time is counted in ticks; the      *)
(* limiter of the model is RateLimiter(max_calls, time_window) with small  *)
(* numbers in place of (30, 60) and (3000, 60).                            *)
(***************************************************************************)
MaxTasks == 3       \* tasks sharing the limiter
MaxClock == 3       \* ticks the clock runs
max_calls == 2
time_window == 2

Tasks == 1..MaxTasks

Task(at, wake) == [pc |-> at, wake |-> wake]

\* can_make_call: self.calls without the calls that left the window
Pruned(calls, t) == SelectSeq(calls, LAMBDA call_time : t - call_time < time_window)

notLimiter ==
    <<index, documents, metadata, company_index, disk, adds, rebuilds, searches, last,
      dedupVars, fusionVars, selectVars, retrieverVars, agentVars, cacheVars>>

\* time passes
ClockTick ==
    /\ clock < MaxClock
    /\ clock' = clock + 1
    /\ UNCHANGED <<limiter_calls, tasks, admitted>>
    /\ UNCHANGED notLimiter

\* await wait_if_needed(): with room in the window it returns at once and the
\* task sends its request; otherwise the task sleeps until the oldest call
\* leaves the window
WaitIfNeeded(t) ==
    /\ tasks[t].pc = "start"
    /\ LET calls == Pruned(limiter_calls, clock) IN
        /\ limiter_calls' = calls
        /\ IF Len(calls) < max_calls
           THEN /\ tasks' = [tasks EXCEPT ![t] = Task("requesting", 0)]
                /\ admitted' = Append(admitted, clock)
           ELSE LET wait_time == time_window - (clock - calls[1]) IN
                IF wait_time > 0
                THEN /\ tasks' = [tasks EXCEPT ![t] = Task("sleeping", clock + wait_time)]
                     /\ admitted' = admitted
                ELSE /\ tasks' = [tasks EXCEPT ![t] = Task("requesting", 0)]
                     /\ admitted' = Append(admitted, clock)
    /\ UNCHANGED clock
    /\ UNCHANGED notLimiter

\* asyncio.sleep(wait_time) is over: wait_if_needed returns and the task
\* sends its request
SleepOver(t) ==
    /\ tasks[t].pc = "sleeping"
    /\ clock >= tasks[t].wake
    /\ tasks' = [tasks EXCEPT ![t] = Task("requesting", 0)]
    /\ admitted' = Append(admitted, clock)
    /\ UNCHANGED <<limiter_calls, clock>>
    /\ UNCHANGED notLimiter

\* the answer arrived and was handled: record_call()
RecordCall(t) ==
    /\ tasks[t].pc = "requesting"
    /\ limiter_calls' = Append(limiter_calls, clock)
    /\ tasks' = [tasks EXCEPT ![t] = Task("done", 0)]
    /\ UNCHANGED <<clock, admitted>>
    /\ UNCHANGED notLimiter

\* the request raises: the caller's except clause, without record_call()
RequestRaises(t) ==
    /\ tasks[t].pc = "requesting"
    /\ tasks' = [tasks EXCEPT ![t] = Task("done", 0)]
    /\ UNCHANGED <<limiter_calls, clock, admitted>>
    /\ UNCHANGED notLimiter

LimiterInit ==
    /\ StoreInit
    /\ DedupIdle
    /\ FusionIdle
    /\ SelectIdle
    /\ RetrieverIdle
    /\ AgentIdle
    /\ CacheIdle
    /\ limiter_calls = <<>>
    /\ clock = 0
    /\ tasks = [t \in Tasks |-> Task("start", 0)]
    /\ admitted = <<>>

LimiterNext ==
    \/ ClockTick
    \/ \E t \in Tasks :
        \/ WaitIfNeeded(t)
        \/ SleepOver(t)
        \/ RecordCall(t)
        \/ RequestRaises(t)

LimiterSpec == LimiterInit /\ [][LimiterNext]_vars

(***************************************************************************)
(* Properties                                                              *)
(***************************************************************************)
CountsAgree == Len(documents) = Len(metadata) /\ Len(metadata) = Len(index)

PositionsValid ==
    \A key \in DOMAIN company_index :
        \A j \in 1..Len(company_index[key]) : company_index[key][j] < Len(documents)

\* the vector at each position is the embedding of the document at that position
Aligned ==
    /\ Len(index) = Len(documents)
    /\ \A i \in 1..Len(documents) : index[i] = Embed(documents[i])

\* C1: immediately after an add_company_data call succeeds,
\* len(documents) == len(metadata) == index.ntotal and every position stored
\* in company_index is < len(documents).
C1_AddKeepsCounts ==
    (last.op = "add" /\ last.emb = "ok") => (CountsAgree /\ PositionsValid)

\* C2: add and remove/rebuild are mutually exclusive: no add appends while a
\* _rebuild_index task is pending, and when a rebuild installs its index,
\* index.ntotal == len(documents).
C2_AddExcludedDuringRebuild ==
    [][/\ rebuilds # <<>> => Len(documents') <= Len(documents)
       /\ (\E i \in 1..MaxRebuilds : RebuildResume(i, "ok", FullSave))
              => Len(index') = Len(documents')]_vars

\* C3: when the embedding provider fails during add_company_data, documents,
\* metadata, company_index, the vector index and the artifacts on disk are
\* exactly as they were before the embeddings came back: nothing of the batch
\* is ingested.
C3_FailedEmbeddingDropsBatch ==
    [][(last'.op = "add" /\ last'.emb = "fail")
          => UNCHANGED <<index, documents, metadata, company_index, disk>>]_vars

C3_Witness == last.op = "add" /\ last.emb = "fail" /\ documents # <<>>

\* C4: add_company_data returns False when the embedding provider failed, and
\* True only if the batch was appended.
C4_FailureReported ==
    last.op = "add" => (last.val = TRUE <=> last.emb = "ok")


\* what the removal of S is to leave behind
RemovedCompletely(S) ==
    /\ \A i \in 1..Len(metadata) : metadata[i].symbol # S
    /\ \A i \in 1..Len(documents) : documents[i][2] # S
    /\ S \notin DOMAIN company_index
    /\ Upper(S) \notin DOMAIN company_index
    /\ \A key \in DOMAIN company_index :
          \A j \in 1..Len(company_index[key]) :
              /\ company_index[key][j] < Len(metadata)
              /\ At(metadata, company_index[key][j]).symbol = key
    /\ \A q \in Queries, k \in 1..MaxK : SearchResults(QueryVector(q), k, S) = {<<>>}

\* C5: after remove_company_data(S) returns True, no document or metadata
\* entry with symbol S remains, S is not a key of company_index (the number
\* of keys drops by one), every position in company_index is the position of
\* a document of that key's own symbol, and a search filtered to S returns [].
C5_RemovePurgesSymbol ==
    [][\A S \in Symbols :
          (last'.op = "remove" /\ last'.val = TRUE /\ last'.sym = S)
              => /\ RemovedCompletely(S)'
                 /\ Cardinality(DOMAIN company_index')
                        = Cardinality(DOMAIN company_index) - 1]_vars

\* a search result that is one document, scored by its own vector
ConsistentHit(h, query, filter) ==
    /\ h.metadata.text = h.text
    /\ h.score = Score(QueryVector(query), Embed(h.text))
    /\ filter # NoFilter => Upper(h.metadata.symbol) = Upper(filter)

\* C6: every entry a search returns has the text and the metadata of one
\* document and the inner product of the query with that document's own
\* vector as its score, and a search filtered to S returns only documents of
\* symbol S.
C6_SearchConsistent ==
    last.op = "search" =>
        \A j \in 1..Len(last.val) : ConsistentHit(last.val[j], last.query, last.sym)

\* C7: after remove_company_data returned True with documents remaining, and
\* with no add in flight, the store reaches a state where the index holds
\* exactly the embeddings of the documents, unless a further add is issued.
C7_WindowCloses ==
    (last.op = "remove" /\ last.val = TRUE /\ documents # <<>> /\ adds = <<>>)
        ~> (Aligned \/ adds # <<>> \/ last.op = "add")

\* C8: every key of the symbol index is an uppercase symbol.
C8_KeysUppercase == \A key \in DOMAIN company_index : Upper(key) = key

Memory ==
    [index |-> index, documents |-> documents, metadata |-> metadata,
     company_index |-> company_index]

Persisted ==
    [index |-> disk.index.val, documents |-> disk.documents.val,
     metadata |-> disk.metadata.val, company_index |-> disk.company_index.val]

AllPresent ==
    /\ Exists(disk.index)
    /\ Exists(disk.metadata)
    /\ Exists(disk.documents)
    /\ Exists(disk.company_index)

\* C9: initialization leaves either the complete persisted state (all four
\* artifacts present) or a fresh empty index, never a mixture.
C9_LoadAllOrNothing ==
    last.op = "init" => (Memory = NewIndex \/ (AllPresent /\ Memory = Persisted))

\* C10: a restart after a persist that ended between its four writes never
\* yields index.ntotal != len(documents) or len(documents) != len(metadata).
C10_NoDesyncAfterCrash ==
    last.op = "init" => (Len(index) = Len(documents) /\ Len(documents) = Len(metadata))

\* get_stats of a store m; "dimension" is the configured constant and
\* "companies" the keys of company_index
Stats(m) ==
    [total_documents |-> Len(m.documents),
     total_companies |-> Cardinality(DOMAIN m.company_index),
     index_size      |-> Len(m.index),
     companies       |-> DOMAIN m.company_index]

\* C11: whenever an add has succeeded, or a remove that started no rebuild
\* has returned True, a store initialized from the artifacts on disk has the
\* get_stats() of the store in memory.
C11_RoundTrip ==
    (\/ (last.op = "add" /\ last.val = TRUE /\ last.emb = "ok")
     \/ (last.op = "remove" /\ last.val = TRUE /\ rebuilds = <<>>))
        => Stats(InitializeIndex(disk)) = Stats(Memory)

\* the store holds no document of the symbol the filter names
NoDocumentsOf(filter) ==
    /\ filter # NoFilter
    /\ \A i \in 1..Len(metadata) : Upper(metadata[i].symbol) # Upper(filter)

\* C12: a search on an empty index, a search whose query embedding fails and
\* a search filtered to a symbol with no documents each return [] (search
\* returns a list in every case, exceptions included) and leave the index,
\* the lists, the symbol index and the artifacts as they were.
C12_SearchEmptyCases ==
    [][(last'.op = "search"
            /\ (index = EmptyIndex \/ last'.emb = "fail" \/ NoDocumentsOf(last'.sym)))
          => /\ last'.val = <<>>
             /\ UNCHANGED <<index, documents, metadata, company_index, disk>>]_vars

C12_Witness ==
    /\ last.op = "search"
    /\ last.emb = "ok"
    /\ index # EmptyIndex
    /\ NoDocumentsOf(last.sym)
    /\ last.val = <<>>

\* the positions of news_list the claimed rule accepts among the first n: a
\* position is accepted unless its title is empty or overlaps above 0.7 with
\* the title of an accepted earlier position
RECURSIVE AcceptedPositions(_)
AcceptedPositions(n) ==
    IF n = 0 THEN {}
    ELSE LET before == AcceptedPositions(n - 1)
             words == TitleWords(NormalTitle(news_list[n]))
         IN  IF \/ NormalTitle(news_list[n]) = <<>>
                \/ \E i \in before :
                      OverlapAbove70(words, TitleWords(NormalTitle(news_list[i])))
             THEN before
             ELSE before \cup {n}

\* the articles of news_list at the positions of P, in input order
RECURSIVE Subsequence(_, _)
Subsequence(P, n) ==
    IF n = 0 THEN <<>>
    ELSE IF n \in P THEN Append(Subsequence(P, n - 1), news_list[n])
         ELSE Subsequence(P, n - 1)

\* C16: the result of _deduplicate_news is the input's subsequence of the
\* articles whose title is not empty and does not overlap above 0.7 with the
\* title of an earlier accepted article; no two titles of the result overlap
\* above 0.7.
C16_DedupSinglePass ==
    unique_news.done =>
        /\ unique_news.val = Subsequence(AcceptedPositions(Len(news_list)), Len(news_list))
        /\ \A a, b \in 1..Len(unique_news.val) :
              a # b => ~OverlapAbove70(TitleWords(NormalTitle(unique_news.val[a])),
                                       TitleWords(NormalTitle(unique_news.val[b])))

C16_Witness ==
    /\ unique_news.done
    /\ Len(news_list) = MaxArticles
    /\ Len(unique_news.val) = 2
    /\ unique_news.val[1] = news_list[1]
    /\ unique_news.val[2] = news_list[3]
    /\ NormalTitle(news_list[2]) # <<>>

\* some collector call of the configuration returns data
AnySuccess(cfg) == \E c \in DOMAIN cfg : cfg[c] = "ok"

Preference(category) ==
    CASE category = "company" -> <<"alpha_vantage", "yahoo_finance", "financial_modeling_prep">>
      [] OTHER -> <<"yahoo_finance", "alpha_vantage", "financial_modeling_prep">>

\* C14: the coroutine of quote, company and historical calls the collectors
\* in the category's fixed order of preference, stops at the first call that
\* returns a non-empty value without raising and returns that collector's
\* data (None when no call succeeds); the record carries that data and
\* sources_used names its collector.
C14_FirstWinsInOrder ==
    \A category \in {"quote", "company", "historical"} :
        LET calls == fetched[category].calls
            value == fetched[category].value
            n == Len(calls)
        IN  /\ fetched[category].done =>
                /\ n \in 1..3
                /\ \A j \in 1..n : calls[j].collector = Preference(category)[j]
                /\ \A j \in 1..(n - 1) : ~calls[j].ok
                /\ IF calls[n].ok THEN value = Dict(calls[n].collector, <<>>)
                   ELSE n = 3 /\ value = NoneValue
            /\ comprehensive_data.done =>
                /\ comprehensive_data.val.data[category] = value
                /\ value # NoneValue => InList(value.source, comprehensive_data.val.sources_used)

C14_Witness ==
    /\ comprehensive_data.done
    /\ Len(fetched["quote"].calls) = 2
    /\ ~fetched["quote"].calls[1].ok
    /\ comprehensive_data.val.data["quote"].source = "alpha_vantage"
    /\ InList("alpha_vantage", comprehensive_data.val.sources_used)

\* the collectors that supplied the data of a category's value
Suppliers(value) ==
    CASE value.kind = "dict" ->
             IF DOMAIN value.parts = {} THEN {value.source}
             ELSE {value.parts[k] : k \in DOMAIN value.parts}
      [] value.kind = "list" -> {value.items[j].source : j \in 1..Len(value.items)}
      [] OTHER -> {}

\* C15: sources_used of the returned record holds the name of every
\* collector that supplied data of a present category (each contributor of
\* the news list and of the merged financial and analyst records included)
\* and nothing else.
C15_ProvenanceComplete ==
    comprehensive_data.done =>
        LET used == {comprehensive_data.val.sources_used[j] :
                        j \in 1..Len(comprehensive_data.val.sources_used)}
        IN  used = UNION {Suppliers(comprehensive_data.val.data[c]) : c \in Categories}

RECURSIVE TotalLength(_)
\* the summed text length of a list of chunks
TotalLength(chunks) ==
    IF chunks = <<>> THEN 0 ELSE Head(chunks).length + TotalLength(Tail(chunks))

\* C17: the summed text length of the chunks _select_best_context returns
\* never exceeds max_length (a length: 0 or more).
C17_BudgetRespected ==
    selected.done => TotalLength(selected.val) <= max_length

C17_Witness ==
    /\ selected.done
    /\ Len(context_chunks) = 3
    /\ \A j \in 1..Len(context_chunks) : context_chunks[j].score = 90
    /\ Len(selected.val) = 2
    /\ TotalLength(selected.val) = max_length
    /\ TotalLength(context_chunks) > max_length

\* C25 as stated: _select_best_context never returns more than 8 chunks, and
\* it accepts no further chunk once the cumulative length of the accepted
\* chunks has reached 80% of max_context_length (a positive length).
C25_StopsAtEightyPercent ==
    (selected.done /\ max_length > 0) =>
        /\ Len(selected.val) <= MaxSelected
        /\ \A n \in 1..(Len(selected.val) - 1) :
              10 * TotalLength(SubSeq(selected.val, 1, n)) < 8 * max_length

\* C25 as amended: _select_best_context never returns more than 8 chunks, and
\* it accepts no further chunk once the cumulative length of the accepted
\* chunks exceeds 80% of max_context_length.
C25_StopsAboveEightyPercent ==
    selected.done =>
        /\ Len(selected.val) <= MaxSelected
        /\ \A n \in 1..(Len(selected.val) - 1) :
              10 * TotalLength(SubSeq(selected.val, 1, n)) <= 8 * max_length

\* four chunks that pass the score test and fit the budget together, of
\* which the stop above 80% leaves the last one out
C25_Witness ==
    /\ selected.done
    /\ Len(context_chunks) = 4
    /\ \A j \in 1..Len(context_chunks) : context_chunks[j].score = 90
    /\ TotalLength(context_chunks) <= max_length
    /\ Len(selected.val) = 3


\* retrieve_context has ended, by returning or by an exception
Ended == pc \in {"returned", "raised"}

\* C18: retrieve_context is total: for every query, optional symbol and
\* max_context_length and every outcome of its collaborators (failed or empty
\* collectors, a quote with missing or null fields, a failed scraper) it
\* returns a bundle, and no exception leaves it.
C18_RetrieveContextTotal == pc # "raised"

\* the $-prefixed tickers of a query as it was typed
DollarTickers(query) == Matches(Flat(query), "dollar", 1)

\* C19: when no symbol is supplied, a query containing a $-prefixed ticker
\* resolves to that ticker, in the retriever and in the master agent, even
\* when ordinary words of 1 to 5 letters come before it in the query.
C19_DollarTickerResolves ==
    (/\ pc \notin {"idle", "extract"}
     /\ request.symbol = NoSymbol
     /\ DollarTickers(request.query) # <<>>)
        => /\ context_data.symbol = DollarTickers(request.query)[1]
           /\ AgentSymbol(request.query) = DollarTickers(request.query)[1]

\* a query of ordinary words only: letters, and no word typed in capitals
OrdinaryWords(query) ==
    \A j \in 1..Len(Flat(query)) :
        Flat(query)[j] = " " \/ (IsLetters(Flat(query)[j]) /\ ~TickerShaped(Flat(query)[j]))

\* the company search was not made, or had no hit
NoSearchHit == \A j \in 1..Len(call_log) : call_log[j] # Call("search_company", "hit")

\* C20: when no symbol is supplied and the query holds only ordinary words
\* in any letter case, pattern matching resolves no symbol; if the company
\* search then has no hit, retrieve_context ends with the symbol unset, no
\* context chunks and no call to the comprehensive fetch, the vector index or
\* the news scraper.
C20_OrdinaryWordsNeedClarification ==
    (/\ Ended
     /\ request.symbol = NoSymbol
     /\ OrdinaryWords(request.query)
     /\ NoSearchHit)
        => /\ PatternSymbol(request.query) = NoSymbol
           /\ pc = "returned"
           /\ context_data.symbol = NoSymbol
           /\ context_data.context_chunks = <<>>
           /\ \A j \in 1..Len(call_log) : call_log[j].callee = "search_company"

\* C21: retrieve_context always terminates: a collector, embedding call or
\* scraper request that never responds is cut off and treated as an absent
\* result, so every call of retrieve_context eventually returns (or raises).
C21_AlwaysTerminates == <>Ended

\* C22: an empty user query is rejected as a failure: process_query_sync on
\* the empty string returns a result whose status is "failed".
C22_EmptyQueryFails ==
    (agent_result.done /\ user_query = <<>>) => agent_result.val.status = "failed"

\* what a caller has done after its lookup, in order
EventsOf(c) == SelectSeq(cache_log, LAMBDA e : e.caller = c /\ e.kind # "lookup")

Kinds(events) == [j \in 1..Len(events) |-> events[j].kind]

\* C23: for one symbol, while the cached record is younger than 30 minutes a
\* call neither calls Data Fusion nor ingests; on a miss, or once the entry is
\* 30 minutes old or older, it calls Data Fusion exactly once, stores the
\* whole record under the key in one write, and only then ingests that record.
C23_CachedWhileYoung ==
    /\ \A j \in 1..Len(cache_log) :
          LET e == cache_log[j] IN
              e.kind = "lookup" =>
                  LET young == e.seen.present /\ e.at - e.seen.timestamp < cache_duration
                      mine == EventsOf(e.caller)
                  IN  IF young THEN mine = <<>>
                      ELSE /\ Len(mine) \in {1, 3}
                           /\ Kinds(mine) = SubSeq(<<"fusion", "store", "ingest">>, 1, Len(mine))
                           /\ Len(mine) = 3 => mine[3].record = mine[2].record
    /\ query_cache.present =>
          \E j \in 1..Len(cache_log) :
              /\ cache_log[j].kind = "store"
              /\ cache_log[j].record = query_cache.record
              /\ cache_log[j].at = query_cache.timestamp

\* a call found an entry exactly 30 minutes old, fetched, stored and ingested
C23_Witness ==
    \E j \in 1..Len(cache_log) :
        /\ cache_log[j].kind = "lookup"
        /\ cache_log[j].seen.present
        /\ cache_log[j].at - cache_log[j].seen.timestamp = cache_duration
        /\ Len(EventsOf(cache_log[j].caller)) = 3

\* the positions of the log where a record is ingested
Ingests == {j \in 1..Len(cache_log) : cache_log[j].kind = "ingest"}

\* the position of the log where caller c did kind
PositionOf(kind, c) ==
    CHOOSE j \in 1..Len(cache_log) : cache_log[j].kind = kind /\ cache_log[j].caller = c

\* when the cache entry of the record ingested at position j was written
StoredAt(j) == cache_log[PositionOf("store", cache_log[j].caller)].at

\* C28 as stated: a fetched record is ingested at most once per cache
\* lifetime even when calls for the symbol overlap: no two ingested records
\* had their cache entries written less than 30 minutes apart.
C28_OncePerLifetime ==
    \A i, j \in Ingests :
        i < j => (StoredAt(j) - StoredAt(i) >= cache_duration
                  \/ StoredAt(i) - StoredAt(j) >= cache_duration)

\* C28 as amended: each call ingests at most once, and two records written
\* to the cache less than 30 minutes apart are both ingested only when the
\* calls overlapped: the later writer looked the cache up before the earlier
\* writer stored its entry.
C28_OncePerCall ==
    /\ \A i, j \in Ingests : cache_log[i].caller = cache_log[j].caller => i = j
    /\ \A i, j \in Ingests :
          LET first == cache_log[i].caller
              second == cache_log[j].caller
          IN  (/\ PositionOf("store", first) < PositionOf("store", second)
               /\ StoredAt(j) - StoredAt(i) < cache_duration)
                  => PositionOf("lookup", second) < PositionOf("store", first)

\* two overlapping calls both missed, both fetched and both ingested
C28_Witness ==
    \E i, j \in Ingests :
        /\ cache_log[i].caller # cache_log[j].caller
        /\ StoredAt(j) - StoredAt(i) < cache_duration
        /\ StoredAt(i) - StoredAt(j) < cache_duration

\* the vector searches retrieve_context has made, in order
VectorSearches ==
    SelectSeq(call_log, LAMBDA c : c.callee \in {SymbolSearchCall(<<>>).callee,
                                                 BroaderSearchCall(<<>>).callee})

\* stage 3 of retrieve_context is over
Searched == pc \in {"news", "select", "format", "returned", "raised"} /\ VectorSearches # <<>>

\* C24: stage 3 queries the index filtered to the resolved symbol with k=10
\* and retries unfiltered with k=5 exactly once, and only when the filtered
\* search returned zero results; every chunk that reaches context_chunks has
\* a score strictly greater than 0.7.
C24_RetryOnlyOnZeroResults ==
    /\ Searched =>
          /\ Len(VectorSearches) \in 1..2
          /\ VectorSearches[1].callee = SymbolSearchCall(<<>>).callee
          /\ Len(VectorSearches) = 2 <=> VectorSearches[1].result = "empty"
          /\ Len(VectorSearches) = 2 => VectorSearches[2].callee = BroaderSearchCall(<<>>).callee
    /\ \A j \in 1..Len(context_data.context_chunks) : context_data.context_chunks[j].score > 70

\* the filtered search returned nothing and the retry brought a chunk
C24_Witness ==
    /\ Searched
    /\ Len(VectorSearches) = 2
    /\ VectorSearches[2].result = "results"
    /\ context_data.context_chunks # <<>>

\* index, documents, metadata and company_index describe the same documents
\* at the same positions
StoreAligned ==
    /\ Aligned
    /\ Len(metadata) = Len(documents)
    /\ \A i \in 1..Len(documents) : metadata[i].text = documents[i]
    /\ \A key \in DOMAIN company_index :
          /\ \A a, b \in 1..Len(company_index[key]) :
                a # b => company_index[key][a] # company_index[key][b]
          /\ {company_index[key][a] : a \in 1..Len(company_index[key])}
                = {pos \in 0..(Len(documents) - 1) : Upper(At(metadata, pos).symbol) = key}

\* res is the exact top-k by inner product among the positions of symbol S
ExactTopK(res, qv, k, S) ==
    LET positions == {pos \in 0..(Len(documents) - 1) :
                         Upper(At(metadata, pos).symbol) = Upper(S)}
        returned == {res[a].index : a \in 1..Len(res)}
    IN  /\ Len(res) = Min(k, Cardinality(positions))
        /\ returned \subseteq positions
        /\ \A a, b \in 1..Len(res) : a < b => res[a].index # res[b].index
        /\ \A a \in 1..Len(res) : res[a].score = Score(qv, At(index, res[a].index))
        /\ \A a, b \in 1..Len(res) : a < b => res[a].score >= res[b].score
        /\ \A pos \in positions \ returned :
              \A a \in 1..Len(res) : Score(qv, At(index, pos)) <= res[a].score

\* C26: on a store whose index, documents, metadata and company_index are
\* aligned, a search filtered to symbol S with n documents returns exactly
\* min(k, n) results, each from one of S's positions, no position twice,
\* ordered by descending inner-product score with no higher-scored document
\* of S left out.
C26_FilteredTopK ==
    [][\A i \in 1..Len(searches) :
          (/\ searches' = Without(searches, i)
           /\ last'.op = "search"
           /\ last'.emb = "ok"
           /\ searches[i].filter # NoFilter
           /\ StoreAligned)
              => ExactTopK(last'.val, QueryVector(searches[i].query),
                           searches[i].k, searches[i].filter)]_vars

\* every position recorded in company_index indexes the text, the metadata
\* and the vector of one document of that symbol
EveryPositionOwn ==
    \A key \in DOMAIN company_index :
        \A a \in 1..Len(company_index[key]) :
            LET pos == company_index[key][a] IN
            /\ pos < Len(documents) /\ pos < Len(metadata) /\ pos < Len(index)
            /\ At(metadata, pos).symbol = key
            /\ At(metadata, pos).text = At(documents, pos)
            /\ At(index, pos) = Embed(At(documents, pos))

\* the positions recorded in company_index are 0 .. len(documents) - 1, each once
NoGapsNoReuse ==
    /\ \A key \in DOMAIN company_index :
          \A a \in 1..Len(company_index[key]) : company_index[key][a] < Len(documents)
    /\ \A pos \in 0..(Len(documents) - 1) :
          Cardinality({ka \in UNION {{<<key, a>> : a \in 1..Len(company_index[key])} :
                                      key \in DOMAIN company_index} :
                          company_index[ka[1]][ka[2]] = pos}) = 1

\* C27: add_company_data calls that overlap in time (each suspended at its
\* embedding request while the other runs) do not interleave their append
\* steps: whenever one has returned, every position recorded in company_index
\* indexes that document's own text, metadata and vector, the positions are
\* assigned without gaps or reuse, and
\* len(documents) == len(metadata) == index.ntotal.
C27_AddsDoNotInterleave ==
    last.op = "add" => (EveryPositionOwn /\ NoGapsNoReuse /\ CountsAgree)

\* one of two overlapping calls has returned after appending its documents
\* while the other, suspended before that append, is still waiting for its
\* embeddings behind documents it has not seen
C27_Witness ==
    /\ last.op = "add"
    /\ last.emb = "ok"
    /\ Len(adds) = 1
    /\ adds[1].start < Len(documents)
    /\ adds[1].symbol # last.sym

\* the calls that went on to their request within the window starting at t0
AdmittedIn(t0) == {i \in 1..Len(admitted) : admitted[i] >= t0 /\ admitted[i] < t0 + time_window}

\* C29: a RateLimiter shared by concurrent tasks lets at most max_calls calls
\* proceed within any window of time_window.
C29_WindowRespected ==
    \A t0 \in 0..MaxClock : Cardinality(AdmittedIn(t0)) <= max_calls

RECURSIVE SelectByLengthAndStops(_, _, _, _)
\* the selection that only the length budget and the 8-chunk / 80% stops limit
SelectByLengthAndStops(rest, max, picked, total_length) ==
    IF rest = <<>> THEN picked
    ELSE LET chunk == Head(rest) IN
         IF total_length + chunk.length > max
         THEN SelectByLengthAndStops(Tail(rest), max, picked, total_length)
         ELSE IF \/ Len(picked) + 1 >= MaxSelected
                 \/ 10 * (total_length + chunk.length) > 8 * max
              THEN Append(picked, chunk)
              ELSE SelectByLengthAndStops(Tail(rest), max, Append(picked, chunk),
                                          total_length + chunk.length)

\* retrieve_context has passed its stage 5
Selected == pc \in {"format", "returned", "raised"}

\* C30: within retrieve_context every candidate chunk has a score above 0.7,
\* so its score less the 0.1 penalty exceeds 0.6 and the adjusted-score test
\* of stage 5 rejects nothing: the selection is the one the length budget and
\* the 8-chunk / 80% stops alone give.
C30_AdjustedScoreNeverRejects ==
    /\ \A j \in 1..Len(context_data.context_chunks) :
          context_data.context_chunks[j].score - TypePenalty > MinRelevance
    /\ Selected =>
          context_data.selected_context =
              SelectByLengthAndStops(SortByScore(context_data.context_chunks),
                                     request.max_context_length, <<>>, 0)

\* a chunk of the lowest score that passes the floor was selected after a
\* chunk of its own category, that is with the penalty applied
C30_Witness ==
    /\ Selected
    /\ Len(context_data.selected_context) >= 2
    /\ \E a, b \in 1..Len(context_data.selected_context) :
          /\ a < b
          /\ context_data.selected_context[a].type = context_data.selected_context[b].type
          /\ context_data.selected_context[b].score - TypePenalty = MinRelevance + 1

==============================================================================
